---- MODULE Spec2Model ----
(***************************************************************************)
(* Model of the pycp lexical front end: the character-level Tokenizer      *)
(* (src/src/pycp/tokenizer.py) and the Preprocessor directive engine       *)
(* (src/src/pycp/preprocessor.py), and the enum classes of                  *)
(* src/src/pycc/_enum.py and src/src/pycp/_enum.py.                        *)
(*                                                                         *)
(* A Python str is a sequence of one-character strings.  Cursor values     *)
(* (previous, current, line start) keep Python's 0-based meaning, so the   *)
(* character at Python index i is s[i + 1].                                *)
(***************************************************************************)
EXTENDS Integers, Sequences, FiniteSets, TLC

\* tokenizer: the Tokenizer instance under test; tok_emitted: the tokens its
\* next() calls returned; tok_hist: the outcome of every next() call so far.
\* pp, pp_emitted, pp_hist: the same for the Preprocessor instance.
\* enum_cls: the enum class under test and the outcome of the calls made on it.
VARIABLES tokenizer, tok_emitted, tok_hist, pp, pp_emitted, pp_hist, enum_cls

vars == <<tokenizer, tok_emitted, tok_hist, pp, pp_emitted, pp_hist, enum_cls>>

tok_vars == <<tokenizer, tok_emitted, tok_hist>>

pp_vars == <<pp, pp_emitted, pp_hist>>

\* No enum class is under test.
EnumIdle == [idle |-> TRUE]

(***************************************************************************)
(* Bounds.                                                                 *)
(***************************************************************************)
MaxSrcLen == 4

MaxTokCalls == 6

MaxLines == 3

MaxCalls == 12

MaxIncLines == 1

MaxPieces == 3

MaxDirLines == 2

MaxChrLen == 3

MaxMembers == 3

MaxEnumCalls == 2

MaxNumLen == 4

(***************************************************************************)
(* Python str helpers.                                                     *)
(***************************************************************************)
At(s, i) == s[i + 1]

Slice(s, a, b) == SubSeq(s, a + 1, b)

StartsWith(s, pat, i) ==
    /\ i + Len(pat) <= Len(s)
    /\ \A k \in 1..Len(pat) : s[i + k] = pat[k]

StartsWithAny(s, pats, i) == \E p \in pats : StartsWith(s, p, i)

\* str.find(ch, i): the smallest index >= i holding ch, or -1.
Find(s, ch, i) ==
    LET hits == {j \in i..(Len(s) - 1) : At(s, j) = ch}
    IN  IF hits = {} THEN -1 ELSE CHOOSE j \in hits : \A h \in hits : j <= h

\* str.find(pat, i) for a pattern of any length.
FindStr(s, pat, i) ==
    LET hits == {j \in i..(Len(s) - 1) : StartsWith(s, pat, j)}
    IN  IF hits = {} THEN -1 ELSE CHOOSE j \in hits : \A h \in hits : j <= h

\* str.index(ch, lo, hi): the smallest index in lo..hi-1 holding ch, or -1.
FindIn(s, ch, lo, hi) ==
    LET hits == {j \in lo..(hi - 1) : At(s, j) = ch}
    IN  IF hits = {} THEN -1 ELSE CHOOSE j \in hits : \A h \in hits : j <= h

MinOf(S) == CHOOSE x \in S : \A y \in S : x <= y

RECURSIVE Concat(_)
Concat(ss) == IF ss = <<>> THEN <<>> ELSE Head(ss) \o Concat(Tail(ss))

(***************************************************************************)
(* CharSets and the punctuator table (src/src/pycp/token.py).              *)
(***************************************************************************)
non_nl_whitespace == {" ", "\t"}

ascii_lowercase ==
    {"a", "b", "c", "d", "e", "f", "g", "h", "i", "j", "k", "l", "m",
     "n", "o", "p", "q", "r", "s", "t", "u", "v", "w", "x", "y", "z"}

ascii_uppercase ==
    {"A", "B", "C", "D", "E", "F", "G", "H", "I", "J", "K", "L", "M",
     "N", "O", "P", "Q", "R", "S", "T", "U", "V", "W", "X", "Y", "Z"}

ascii_letters == ascii_lowercase \cup ascii_uppercase

digits == {"0", "1", "2", "3", "4", "5", "6", "7", "8", "9"}

alphanumeric == ascii_letters \cup digits

\* "GRAVE" stands for the backtick character.
punctuation1 ==
    {"!", "\"", "#", "$", "%", "&", "'", "(", ")", "*", "+", ",", "-", ".",
     "/", ":", ";", "<", "=", ">", "?", "@", "[", "\\", "]", "^", "_", "GRAVE",
     "{", "|", "}", "~"}

\* _PUNCTUATION_TOKEN_MAP as a set of <<punctuator, kind>> pairs.
PUNCTUATION_TOKEN_MAP ==
    { <<(<<"+">>), "PLUS">>, <<(<<"-">>), "MINUS">>, <<(<<"*">>), "TIMES">>,
      <<(<<"/">>), "DIVIDE">>, <<(<<"%">>), "MOD">>, <<(<<"|">>), "OR">>,
      <<(<<"&">>), "AND">>, <<(<<"~">>), "NOT">>, <<(<<"^">>), "XOR">>,
      <<(<<"<", "<">>), "LSHIFT">>, <<(<<">", ">">>), "RSHIFT">>,
      <<(<<"|", "|">>), "LOR">>, <<(<<"&", "&">>), "LAND">>,
      <<(<<"!">>), "LNOT">>, <<(<<"<">>), "LT">>, <<(<<">">>), "GT">>,
      <<(<<"<", "=">>), "LE">>, <<(<<">", "=">>), "GE">>,
      <<(<<"=", "=">>), "EQ">>, <<(<<"!", "=">>), "NE">>,
      <<(<<"=">>), "EQUALS">>, <<(<<"*", "=">>), "TIMESEQUAL">>,
      <<(<<"/", "=">>), "DIVEQUAL">>, <<(<<"%", "=">>), "MODEQUAL">>,
      <<(<<"+", "=">>), "PLUSEQUAL">>, <<(<<"-", "=">>), "MINUSEQUAL">>,
      <<(<<"<", "<", "=">>), "LSHIFTEQUAL">>,
      <<(<<">", ">", "=">>), "RSHIFTEQUAL">>,
      <<(<<"&", "=">>), "ANDEQUAL">>, <<(<<"|", "=">>), "OREQUAL">>,
      <<(<<"^", "=">>), "XOREQUAL">>, <<(<<"+", "+">>), "PLUSPLUS">>,
      <<(<<"-", "-">>), "MINUSMINUS">>, <<(<<"-", ">">>), "ARROW">>,
      <<(<<"?">>), "CONDOP">>, <<(<<"(">>), "LPAREN">>,
      <<(<<")">>), "RPAREN">>, <<(<<"[">>), "LBRACKET">>,
      <<(<<"]">>), "RBRACKET">>, <<(<<",">>), "COMMA">>,
      <<(<<".">>), "PERIOD">>, <<(<<";">>), "SEMICOLON">>,
      <<(<<":">>), "COLON">>, <<(<<"{">>), "LBRACE">>,
      <<(<<"}">>), "RBRACE">>, <<(<<"#">>), "PP_OCTO">>,
      <<(<<"#", "#">>), "PP_OCTOOCTO">> }

Punctuators == {e[1] : e \in PUNCTUATION_TOKEN_MAP}

punctuation2 == {p \in Punctuators : Len(p) = 2}

punctuation3 == {p \in Punctuators : Len(p) = 3}

\* TokenKind.from_punctuator; "" stands for the ValueError.
from_punctuator(p) ==
    IF p \in Punctuators
    THEN (CHOOSE e \in PUNCTUATION_TOKEN_MAP : e[1] = p)[2]
    ELSE ""

\* The identifier ranges above U+00A7 lie outside the ASCII sources drawn here.
can_start_identifier(c) == c \in ascii_letters \/ c \in {"_", "$"}

can_end_identifier(c) == can_start_identifier(c) \/ c \in digits

\* str.isdecimal on the characters drawn here.
isdecimal(c) == c \in digits

(***************************************************************************)
(* Token and Tokenizer state.                                              *)
(***************************************************************************)
Token(kind, value, lineno, col_offset, end_col_offset, filename) ==
    [kind |-> kind, value |-> value, lineno |-> lineno,
     col_offset |-> col_offset, end_col_offset |-> end_col_offset,
     filename |-> filename]

NoTok == Token("NONE", <<>>, 0, 0, 0, <<>>)

\* Tokenizer.__init__
NewTokenizer(source, filename) ==
    [source |-> source, filename |-> filename, previous |-> 0, current |-> 0,
     end |-> Len(source), lineno |-> 1, current_line_start |-> 0]

NoExc == [type |-> "none", msg |-> "", filename |-> <<>>, lineno |-> 0,
          offset |-> 0, end_offset |-> 0]

Exc(type, msg) == [NoExc EXCEPT !.type = type, !.msg = msg]

\* The scan result of one token position handler: the kind it returns, the
\* value it leaves in self.current, and the exception it raises if any.
Scan(kind, current) == [kind |-> kind, current |-> current, exc |-> NoExc]

ScanExc(current, type, msg) ==
    [kind |-> "", current |-> current, exc |-> Exc(type, msg)]

\* Tokenizer._peek; "None" stands for None.
tokenizer_peek(s, cur) == IF cur + 1 < Len(s) THEN At(s, cur + 1) ELSE "None"

(***************************************************************************)
(* Token position handlers.  Each takes the source and the cursor at which *)
(* __next__ dispatched to it.                                              *)
(***************************************************************************)
line_comment(s, cur) ==
    LET potential_ends == {Find(s, "\r", cur + 2), Find(s, "\n", cur + 2), Len(s)}
    IN  Scan("COMMENT", MinOf(potential_ends \ {-1}))

\* block_comment searching for the closing */ from the * of the opening /*.
block_comment_FromStar(s, cur) ==
    LET comment_end == FindStr(s, <<"*", "/">>, cur + 1)
    IN  IF comment_end = -1
        THEN ScanExc(cur + 2, "PycpSyntaxError", "Unclosed block comment.")
        ELSE Scan("COMMENT", comment_end + 2)

block_comment(s, cur) ==
    LET comment_end == FindStr(s, <<"*", "/">>, cur + 2)
    IN  IF comment_end = -1
        THEN ScanExc(cur + 2, "PycpSyntaxError", "Unclosed block comment.")
        ELSE Scan("COMMENT", comment_end + 2)

\* self.curr_char past the end of the source is an IndexError.
newline(s, cur) ==
    LET c1 == IF At(s, cur) = "\r" THEN cur + 1 ELSE cur
    IN  IF c1 >= Len(s)
        THEN ScanExc(c1, "IndexError", "string index out of range")
        ELSE IF At(s, c1) = "\n" THEN Scan("NL", c1 + 1) ELSE Scan("NL", c1)

\* TokenKind has no member ESCAPED_NL: the return statement is an AttributeError.
escaped_newline(s, cur) ==
    LET Escaped(r) ==
            IF r.exc.type # "none"
            THEN r
            ELSE ScanExc(r.current, "AttributeError", "ESCAPED_NL")
    IN  Escaped(newline(s, cur + 1))

whitespace(s, cur) ==
    LET rest == {i \in (cur + 1)..(Len(s) - 1) : At(s, i) \notin non_nl_whitespace}
    IN  Scan("WS", IF rest = {} THEN cur + 1 ELSE MinOf(rest))

\* The loop of numeric_literal without the branch for a signed exponent.
RECURSIVE numeric_literal_loop_NoExponent(_, _)
numeric_literal_loop_NoExponent(s, cur) ==
    IF cur >= Len(s) THEN cur
    ELSE IF At(s, cur) \in alphanumeric \/ At(s, cur) = "."
         THEN numeric_literal_loop_NoExponent(s, cur + 1)
    ELSE cur

RECURSIVE numeric_literal_loop(_, _)
numeric_literal_loop(s, cur) ==
    IF cur >= Len(s) THEN cur
    ELSE IF /\ At(s, cur) \in {"e", "E", "p", "P"}
            /\ tokenizer_peek(s, cur) \in {"+", "-"}
         THEN numeric_literal_loop(s, cur + 2)
    ELSE IF At(s, cur) \in alphanumeric \/ At(s, cur) = "."
         THEN numeric_literal_loop(s, cur + 1)
    ELSE cur

\* numeric_literal without the branch for a signed exponent.
numeric_literal_NoExponent(s, cur) ==
    Scan("PP_NUM", numeric_literal_loop_NoExponent(s, cur + 1))

numeric_literal(s, cur) == Scan("PP_NUM", numeric_literal_loop(s, cur + 1))

identifier(s, cur) ==
    LET rest == {i \in (cur + 1)..(Len(s) - 1) : ~can_end_identifier(At(s, i))}
    IN  Scan("ID", IF rest = {} THEN cur + 1 ELSE MinOf(rest))

\* punctuation trying the two-character punctuators before the
\* three-character ones.
punctuation_TwoFirst(s, prev, cur) ==
    LET Kind(tok_kind, c1) ==
            IF tok_kind = ""
            THEN ScanExc(c1, "PycpSyntaxError", "Invalid punctuation.")
            ELSE Scan(tok_kind, c1)
        Longest(c1) == Kind(from_punctuator(Slice(s, prev, c1)), c1)
    IN  Longest(IF StartsWithAny(s, punctuation2, cur) THEN cur + 2
                ELSE IF StartsWithAny(s, punctuation3, cur) THEN cur + 3
                ELSE cur + 1)

\* punctuation returning a token for text that is not a punctuator.
punctuation_Unchecked(s, prev, cur) ==
    LET Kind(tok_kind, c1) == Scan(IF tok_kind = "" THEN "PUNCT" ELSE tok_kind, c1)
        Longest(c1) == Kind(from_punctuator(Slice(s, prev, c1)), c1)
    IN  Longest(IF StartsWithAny(s, punctuation3, cur) THEN cur + 3
                ELSE IF StartsWithAny(s, punctuation2, cur) THEN cur + 2
                ELSE cur + 1)

punctuation(s, prev, cur) ==
    LET Kind(tok_kind, c1) ==
            IF tok_kind = ""
            THEN ScanExc(c1, "PycpSyntaxError", "Invalid punctuation.")
            ELSE Scan(tok_kind, c1)
        Longest(c1) == Kind(from_punctuator(Slice(s, prev, c1)), c1)
    IN  Longest(IF StartsWithAny(s, punctuation3, cur) THEN cur + 3
                ELSE IF StartsWithAny(s, punctuation2, cur) THEN cur + 2
                ELSE cur + 1)

\* The while loop of _find_quote_end: the index after the first quote_char
\* at or after quote_end that is not directly preceded by a backslash,
\* or -1 when str.index raises ValueError.
RECURSIVE find_quote_loop(_, _, _)
find_quote_loop(s, quote_char, quote_end) ==
    LET Found(q) ==
            IF q = -1 THEN -1
            ELSE IF At(s, q - 1) # "\\" THEN q + 1
            ELSE find_quote_loop(s, quote_char, q + 1)
    IN  Found(FindIn(s, quote_char, quote_end, Len(s)))

\* find_quote_end without the test that the literal is on one logical line.
find_quote_end_NoLineCheck(s, cur, kind) ==
    LET quote_char == At(s, cur)
        msg == IF quote_char = "'" THEN "Unclosed char const."
               ELSE "Unclosed string literal."
        End(c1) ==
            IF c1 = -1
            THEN ScanExc(cur, "PycpSyntaxError", msg)
            ELSE Scan(kind, c1)
    IN  End(find_quote_loop(s, quote_char, cur + 1))

\* cur points at the starting quote character.
find_quote_end(s, cur, kind) ==
    LET quote_char == At(s, cur)
        quote_type == IF quote_char = "'" THEN "char const" ELSE "string literal"
        msg == IF quote_char = "'" THEN "Unclosed char const."
               ELSE "Unclosed string literal."
        End(c1) ==
            IF c1 = -1
            THEN ScanExc(cur, "PycpSyntaxError", msg)
            ELSE IF \E i \in cur..(c1 - 1) :
                        \/ At(s, i) = "\r" /\ At(s, i - 1) # "\\"
                        \/ At(s, i) = "\n" /\ At(s, i - 1) \notin {"\\", "\r"}
                 THEN ScanExc(c1, "PycpSyntaxError", msg)
                 ELSE Scan(kind, c1)
    IN  End(find_quote_loop(s, quote_char, cur + 1))

string_literal(s, cur) ==
    LET c1 == IF StartsWith(s, <<"u", "8">>, cur) THEN cur + 2
              ELSE IF At(s, cur) \in {"u", "L", "W"} THEN cur + 1
              ELSE cur
    IN  find_quote_end(s, c1, "STRING_LITERAL")

char_const(s, cur) ==
    LET c1 == IF At(s, cur) \in {"u", "L", "U"} THEN cur + 1 ELSE cur
    IN  find_quote_end(s, c1, "CHAR_CONST")

StringOpeners ==
    { <<"\"">>, <<"u", "8", "\"">>, <<"u", "\"">>, <<"L", "\"">>, <<"W", "\"">> }

CharOpeners == { <<"'">>, <<"u", "'">>, <<"L", "'">>, <<"U", "'">> }

\* The if/elif chain of Tokenizer.__next__.
Dispatch(s, prev, cur) ==
    LET curr_char == At(s, cur)
    IN  IF StartsWith(s, <<"/", "/">>, cur) THEN line_comment(s, cur)
        ELSE IF StartsWith(s, <<"/", "*">>, cur) THEN block_comment(s, cur)
        ELSE IF StartsWithAny(s, { <<"\\", "\r">>, <<"\\", "\n">> }, cur)
             THEN escaped_newline(s, cur)
        ELSE IF curr_char \in {"\r", "\n"} THEN newline(s, cur)
        ELSE IF curr_char \in non_nl_whitespace THEN whitespace(s, cur)
        ELSE IF \/ isdecimal(curr_char)
                \/ curr_char = "." /\ isdecimal(tokenizer_peek(s, cur))
             THEN numeric_literal(s, cur)
        ELSE IF StartsWithAny(s, StringOpeners, cur) THEN string_literal(s, cur)
        ELSE IF StartsWithAny(s, CharOpeners, cur) THEN char_const(s, cur)
        ELSE IF can_start_identifier(curr_char) THEN identifier(s, cur)
        ELSE IF curr_char \in punctuation1 THEN punctuation(s, prev, cur)
        ELSE ScanExc(cur, "PycpSyntaxError", "Invalid token.")

\* Tokenizer._get_current_offset and _get_current_location for the cursor
\* values a raise leaves behind (the line text is not modelled).
TokenizerExc(tz, scan) ==
    [scan.exc EXCEPT
        !.filename = IF scan.exc.type = "PycpSyntaxError" THEN tz.filename ELSE <<>>,
        !.lineno = IF scan.exc.type = "PycpSyntaxError" THEN tz.lineno ELSE 0,
        !.offset = IF scan.exc.type = "PycpSyntaxError"
                   THEN tz.previous - tz.current_line_start ELSE 0,
        !.end_offset = IF scan.exc.type = "PycpSyntaxError"
                       THEN scan.current - tz.current_line_start ELSE 0]

\* AdvanceTokenizer with previous set one past the cursor.
AdvanceTokenizer_PastCursor(tz, scan) ==
    [tz EXCEPT
        !.previous = scan.current + 1,
        !.current = scan.current,
        !.lineno = IF scan.kind = "NL" THEN tz.lineno + 1 ELSE tz.lineno,
        !.current_line_start =
            IF scan.kind = "NL" THEN scan.current ELSE tz.current_line_start]

\* AdvanceTokenizer leaving lineno as it is when a newline token was constructed.
AdvanceTokenizer_KeepLineno(tz, scan) ==
    [tz EXCEPT
        !.previous = scan.current,
        !.current = scan.current,
        !.current_line_start =
            IF scan.kind = "NL" THEN scan.current ELSE tz.current_line_start]

\* The position trackers after a token was constructed.
\* __next__ with the cursor put back where the call found it.
AdvanceTokenizer_KeepCurrent(tz, scan) ==
    [tz EXCEPT
        !.previous = tz.current,
        !.current = tz.current,
        !.lineno = IF scan.kind = "NL" THEN tz.lineno + 1 ELSE tz.lineno,
        !.current_line_start =
            IF scan.kind = "NL" THEN scan.current ELSE tz.current_line_start]

\* __next__ with the line start left alone after a newline token.
AdvanceTokenizer_KeepLineStart(tz, scan) ==
    [tz EXCEPT
        !.previous = scan.current,
        !.current = scan.current,
        !.lineno = IF scan.kind = "NL" THEN tz.lineno + 1 ELSE tz.lineno]

AdvanceTokenizer(tz, scan) ==
    [tz EXCEPT
        !.previous = scan.current,
        !.current = scan.current,
        !.lineno = IF scan.kind = "NL" THEN tz.lineno + 1 ELSE tz.lineno,
        !.current_line_start =
            IF scan.kind = "NL" THEN scan.current ELSE tz.current_line_start]

\* StopTokenizer rewinding the instance to the start of its source.
StopTokenizer_Rewind(tz) == [tz EXCEPT !.previous = 0, !.current = 0]

\* What a StopIteration leaves of the Tokenizer: nothing is assigned.
StopTokenizer(tz) == tz

\* Tokenizer.__next__: res is "tok", "stop" (StopIteration) or "exc".
TokenizerNext(tz) ==
    LET Scanned(scan) ==
            IF scan.exc.type # "none"
            THEN [res |-> "exc", tok |-> NoTok, exc |-> TokenizerExc(tz, scan),
                  tz |-> [tz EXCEPT !.current = scan.current]]
            ELSE [res |-> "tok",
                  tok |-> Token(scan.kind,
                                Slice(tz.source, tz.previous, scan.current),
                                tz.lineno,
                                tz.previous - tz.current_line_start,
                                scan.current - tz.current_line_start,
                                tz.filename),
                  exc |-> NoExc,
                  tz |-> AdvanceTokenizer(tz, scan)]
    IN  IF tz.current >= tz.end
        THEN [res |-> "stop", tok |-> NoTok, exc |-> NoExc, tz |-> StopTokenizer(tz)]
        ELSE Scanned(Dispatch(tz.source, tz.previous, tz.current))

(***************************************************************************)
(* Specification of one Tokenizer: its source is drawn from all strings of *)
(* at most MaxSrcLen characters of TokAlphabet, and its consumer calls     *)
(* next() again and again, also after StopIteration or an exception.       *)
(***************************************************************************)
TokAlphabet == {"a", "1", " ", "\n", "\r", "\\", "/", "*", "\"", "#"}

Strings(alphabet, n) == UNION {[1..k -> alphabet] : k \in 0..n}

UnknownFilename == <<"<", "u", "n", "k", "n", "o", "w", "n", ">">>

Outcome(r) == [res |-> r.res, exc |-> r.exc]

Last(h) == h[Len(h)]

PPIdle == [idle |-> TRUE]

TokInit ==
    /\ \E source \in Strings(TokAlphabet, MaxSrcLen) :
           tokenizer = NewTokenizer(source, UnknownFilename)
    /\ tok_emitted = <<>>
    /\ tok_hist = <<>>
    /\ pp = PPIdle
    /\ pp_emitted = <<>>
    /\ pp_hist = <<>>
    /\ enum_cls = EnumIdle

TokCall(res) ==
    /\ Len(tok_hist) < MaxTokCalls
    /\ LET r == TokenizerNext(tokenizer)
       IN  /\ r.res = res
           /\ tokenizer' = r.tz
           /\ tok_emitted' = IF res = "tok" THEN Append(tok_emitted, r.tok)
                             ELSE tok_emitted
           /\ tok_hist' = Append(tok_hist, Outcome(r))
    /\ UNCHANGED <<pp_vars, enum_cls>>

TokNextToken == TokCall("tok")

TokNextStop == TokCall("stop")

TokNextRaise == TokCall("exc")

TokNext == TokNextToken \/ TokNextStop \/ TokNextRaise

SpecTok == TokInit /\ [][TokNext]_vars

Values(toks) == [i \in 1..Len(toks) |-> toks[i].value]

Raised(h, types) == \E i \in 1..Len(h) : h[i].res = "exc" /\ h[i].exc.type \in types

Stopped(h) == \E i \in 1..Len(h) : h[i].res = "stop"

\* The consumer's iteration over the instance has ended: its latest call
\* was the first one that did not return a token.
FirstEnd(h) ==
    /\ h # <<>>
    /\ Last(h).res # "tok"
    /\ \A i \in 1..(Len(h) - 1) : h[i].res = "tok"

(***************************************************************************)
(* The file system the Preprocessor sees: a set of <<path, contents>>      *)
(* pairs, and the os.path functions (posixpath) it calls.                  *)
(***************************************************************************)
FilePaths(files) == {f[1] : f \in files}

IsFile(files, path) == path \in FilePaths(files)

ReadFile(files, path) == (CHOOSE f \in files : f[1] = path)[2]

\* str.split("/")
RECURSIVE SplitSlash(_, _)
SplitSlash(s, acc) ==
    IF s = <<>> THEN <<acc>>
    ELSE IF Head(s) = "/" THEN <<acc>> \o SplitSlash(Tail(s), <<>>)
    ELSE SplitSlash(Tail(s), Append(acc, Head(s)))

\* "/".join(comps)
RECURSIVE JoinSlash(_)
JoinSlash(comps) ==
    IF comps = <<>> THEN <<>>
    ELSE IF Len(comps) = 1 THEN comps[1]
    ELSE comps[1] \o <<"/">> \o JoinSlash(Tail(comps))

\* The for loop of posixpath.normpath over the components.
RECURSIVE NormComps(_, _, _)
NormComps(comps, new_comps, initial_slashes) ==
    IF comps = <<>> THEN new_comps
    ELSE LET comp == Head(comps)
         IN  IF comp \in { <<>>, <<".">> }
             THEN NormComps(Tail(comps), new_comps, initial_slashes)
             ELSE IF \/ comp # <<".", ".">>
                     \/ (initial_slashes = 0 /\ new_comps = <<>>)
                     \/ (new_comps # <<>> /\ new_comps[Len(new_comps)] = <<".", ".">>)
                  THEN NormComps(Tail(comps), Append(new_comps, comp), initial_slashes)
             ELSE IF new_comps # <<>>
                  THEN NormComps(Tail(comps), SubSeq(new_comps, 1, Len(new_comps) - 1),
                                 initial_slashes)
             ELSE NormComps(Tail(comps), new_comps, initial_slashes)

\* os.path.normpath
normpath(path) ==
    IF path = <<>> THEN <<".">>
    ELSE LET initial_slashes ==
                 IF ~StartsWith(path, <<"/">>, 0) THEN 0
                 ELSE IF StartsWith(path, <<"/", "/">>, 0)
                         /\ ~StartsWith(path, <<"/", "/", "/">>, 0) THEN 2
                 ELSE 1
             body == JoinSlash(NormComps(SplitSlash(path, <<>>), <<>>, initial_slashes))
             out == [i \in 1..initial_slashes |-> "/"] \o body
         IN  IF out = <<>> THEN <<".">> ELSE out

\* os.path.join(a, b)
join(a, b) ==
    IF StartsWith(b, <<"/">>, 0) THEN b
    ELSE IF a = <<>> \/ a[Len(a)] = "/" THEN a \o b
    ELSE a \o <<"/">> \o b

RECURSIVE rstrip_slash(_)
rstrip_slash(s) ==
    IF s # <<>> /\ s[Len(s)] = "/" THEN rstrip_slash(SubSeq(s, 1, Len(s) - 1)) ELSE s

\* os.path.dirname
dirname(path) ==
    LET slashes == {i \in 1..Len(path) : path[i] = "/"}
        i == IF slashes = {} THEN 0 ELSE CHOOSE m \in slashes : \A n \in slashes : n <= m
        head == SubSeq(path, 1, i)
    IN  IF head # <<>> /\ \E n \in 1..Len(head) : head[n] # "/"
        THEN rstrip_slash(head)
        ELSE head

\* os.path.exists: a file, the current directory, or a directory above a file.
exists(files, path) ==
    \/ IsFile(files, path)
    \/ path = <<".">>
    \/ \E f \in FilePaths(files) : \E n \in 1..Len(f) :
           f[n] = "/" /\ normpath(SubSeq(f, 1, n)) = path

\* The number of lines iterating over a text file yields (universal newlines).
RECURSIVE LineCount(_)
LineCount(text) ==
    IF text = <<>> THEN 0
    ELSE LET ends == {i \in 1..Len(text) : text[i] \in {"\n", "\r"}}
         IN  IF ends = {} THEN 1
             ELSE LET e == MinOf(ends)
                      after == IF text[e] = "\r" /\ e < Len(text) /\ text[e + 1] = "\n"
                               THEN e + 1 ELSE e
                  IN  1 + LineCount(SubSeq(text, after + 1, Len(text)))

(***************************************************************************)
(* Preprocessor state.                                                     *)
(*                                                                         *)
(* raw_tokens is the iterator self.raw_tokens: a chain, written as the     *)
(* sequence of its parts, front first.  A part is a list of tokens         *)
(* (_prepend of a list, or the buffer of an itertools.tee), a generator    *)
(* _tokens_with_temp_local_dir, or the Tokenizer the instance was built    *)
(* on.  for_skip is the number of parts at the front that the running for  *)
(* loop of __next__ does not iterate over: the loop holds the iterator     *)
(* that self.raw_tokens named when the call began, and every part put in   *)
(* front during the call is seen only by reads of self.raw_tokens.         *)
(* exc and ret are the exception and the token a call ends with.           *)
(***************************************************************************)
ListPart(toks) == [type |-> "list", toks |-> toks]

TokenizerPart(tz) == [type |-> "tokenizer", tz |-> tz]

\* The generator object _tokens_with_temp_local_dir(include_path, include_source)
\* before its first next(): nothing of its body has run.
GeneratorPart(include_path, include_source) ==
    [type |-> "generator", started |-> FALSE, include_path |-> include_path,
     orig_local_dir |-> <<>>, tz |-> NewTokenizer(include_source, include_path)]

macros == {}

include_guarded_paths == {}

\* Preprocessor.__init__ on a Tokenizer, then the attribute assignments a
\* caller makes, in an environment with the given files.
NewPreprocessor(tz, local_dir, include_search_dirs, ignore_missing_includes, files) ==
    [raw_tokens |-> <<TokenizerPart(tz)>>,
     for_skip |-> 0,
     local_dir |-> local_dir,
     include_search_dirs |-> include_search_dirs,
     ignore_missing_includes |-> ignore_missing_includes,
     prev_tok |-> NoTok,
     curr_tok |-> NoTok,
     pragma_once_paths |-> {},
     include_next_index |-> 0,
     files |-> files,
     opened |-> <<>>,
     warnings |-> <<>>,
     exc |-> NoExc,
     ret |-> NoTok]

Raise(p, exc) == [p EXCEPT !.exc = exc]

StopIteration == Exc("StopIteration", "")

\* A token read from self.raw_tokens: tok is NoTok when nothing came, because
\* the iterator is exhausted or because it raised (then pp.exc is set).
Got(p, tok) == [pp |-> p, tok |-> tok]

\* The chain drops an exhausted part for good.
DropPart(p, at) ==
    [p EXCEPT
        !.raw_tokens = SubSeq(@, 1, at - 1) \o SubSeq(@, at + 1, Len(@)),
        !.for_skip = IF at <= @ THEN @ - 1 ELSE @]

\* next() on the chain that starts at part `at`.
RECURSIVE Pull(_, _)
Pull(p, at) ==
    IF at > Len(p.raw_tokens) THEN Got(p, NoTok)
    ELSE
    LET part == p.raw_tokens[at]
        FromTokenizer(r) ==
            LET q == [p EXCEPT !.raw_tokens[at].tz = r.tz]
            IN  IF r.res = "tok" THEN Got(q, r.tok)
                ELSE IF r.res = "stop" THEN Pull(q, at + 1)
                ELSE Got(Raise(q, r.exc), NoTok)
        \* generator: the body runs from its start on the first next()
        orig == IF part.started THEN part.orig_local_dir ELSE p.local_dir
        entered == IF part.started THEN p
                   ELSE [p EXCEPT !.local_dir = dirname(part.include_path),
                                  !.raw_tokens[at].started = TRUE,
                                  !.raw_tokens[at].orig_local_dir = orig]
        \* finally: self.local_dir = _orig_local_dir
        left == DropPart([entered EXCEPT !.local_dir = orig], at)
        FromGenerator(r) ==
            IF r.res = "tok"
            THEN Got([entered EXCEPT !.raw_tokens[at].tz = r.tz], r.tok)
            ELSE IF r.res = "stop" THEN Pull(left, at)
            ELSE Got(Raise(left, r.exc), NoTok)
        FromNext(r) ==
            IF part.type = "tokenizer" THEN FromTokenizer(r) ELSE FromGenerator(r)
    IN  IF part.type = "list"
        THEN IF part.toks = <<>>
             THEN Pull(DropPart(p, at), at)
             ELSE Got([p EXCEPT !.raw_tokens[at].toks = Tail(@)], Head(part.toks))
        ELSE FromNext(TokenizerNext(part.tz))

\* next(self.raw_tokens, None)
NextRaw(p) == Pull(p, 1)

_is_not_space(tok) == tok.kind \notin {"WS", "COMMENT"}

\* next(filter(_is_not_space, self.raw_tokens), None)
RECURSIVE NextNotSpace(_)
NextNotSpace(p) ==
    LET Filter(r) ==
            IF r.tok = NoTok \/ _is_not_space(r.tok) THEN r ELSE NextNotSpace(r.pp)
    IN  Filter(NextRaw(p))

\* next((t for t in self.raw_tokens if t.kind is TokenKind.NL), None)
RECURSIVE NextNL(_)
NextNL(p) ==
    LET Filter(r) ==
            IF r.tok = NoTok \/ r.tok.kind = "NL" THEN r ELSE NextNL(r.pp)
    IN  Filter(NextRaw(p))

\* Preprocessor._prepend
_prepend(p, part) ==
    [p EXCEPT !.raw_tokens = <<part>> \o @, !.for_skip = @ + 1]

\* Preprocessor._peek(skip_spaces=True): tee keeps every token the forked
\* iterator read as the front of the new self.raw_tokens.
RECURSIVE PeekFrom(_, _)
PeekFrom(p, buffer) ==
    LET Fork(r) ==
            IF r.tok = NoTok \/ _is_not_space(r.tok)
            THEN Got(_prepend(r.pp, ListPart(IF r.tok = NoTok THEN buffer
                                             ELSE Append(buffer, r.tok))),
                     r.tok)
            ELSE PeekFrom(r.pp, Append(buffer, r.tok))
    IN  Fork(NextRaw(p))

_peek(p) == PeekFrom(p, <<>>)

(***************************************************************************)
(* Directive handling.  A handler takes the Preprocessor state and gives   *)
(* the state it leaves; a raised exception (StopIteration included) is in  *)
(* exc, and nothing after a raise is executed.                             *)
(***************************************************************************)
str_include == <<"i", "n", "c", "l", "u", "d", "e">>

str_include_next == str_include \o <<"_", "n", "e", "x", "t">>

str_pragma == <<"p", "r", "a", "g", "m", "a">>

str_once == <<"o", "n", "c", "e">>

str_error == <<"e", "r", "r", "o", "r">>

str_warning == <<"w", "a", "r", "n", "i", "n", "g">>

str_extra_tokens ==
    <<"E", "x", "t", "r", "a", " ", "t", "o", "k", "e", "n", "s", ".">>

Raising(p) == p.exc.type # "none"

\* PycpSyntaxError.from_token: the exception that comes out of the call.  It
\* opens token.filename and takes the line numbered token.lineno; open()
\* failing and next() finding no such line raise instead of the error.
from_token(files, msg, token) ==
    IF ~IsFile(files, token.filename)
    THEN Exc("FileNotFoundError", "")
    ELSE IF token.lineno > LineCount(ReadFile(files, token.filename))
    THEN StopIteration
    ELSE [type |-> "PycpSyntaxError", msg |-> msg, filename |-> token.filename,
          lineno |-> token.lineno, offset |-> token.col_offset,
          end_offset |-> token.end_col_offset]

_is_pp_directive_hash(curr_tok, prev_tok) ==
    curr_tok.kind = "PP_OCTO" /\ (prev_tok = NoTok \/ prev_tok.kind = "NL")

_is_macro(tok) == tok.kind = "ID" /\ tok.value \in macros

\* warnings.warn_explicit; msg is a str like every token value.
Warn(p, msg, category, tok) ==
    [p EXCEPT !.warnings = Append(@, [msg |-> msg, category |-> category,
                                      filename |-> tok.filename,
                                      lineno |-> tok.lineno])]

_skip_rest_of_line(p) ==
    LET Requeue(n) ==
            IF Raising(n.pp) THEN n.pp
            ELSE IF n.tok # NoTok THEN _prepend(n.pp, ListPart(<<n.tok>>))
            ELSE n.pp
        Skip(r) ==
            IF Raising(r.pp) THEN r.pp
            ELSE IF r.tok = NoTok \/ r.tok.kind = "NL" THEN r.pp
            ELSE Requeue(NextNL(Warn(r.pp, str_extra_tokens, "PycpSyntaxWarning",
                                     r.tok)))
    IN  Skip(NextRaw(p))

\* list(takewhile(lambda t: t.kind is not TokenKind.NL, self.raw_tokens))
RECURSIVE TakeLine(_, _)
TakeLine(p, acc) ==
    LET Take(r) ==
            IF r.tok = NoTok \/ r.tok.kind = "NL"
            THEN [pp |-> r.pp, toks |-> acc]
            ELSE TakeLine(r.pp, Append(acc, r.tok))
    IN  Take(NextRaw(p))

\* Preprocessor._read_include_name
_read_include_name(p, name_start_tok) ==
    LET Bracketed(t) ==
            IF Raising(t.pp)
            THEN [pp |-> t.pp, name |-> <<>>, is_quoted |-> FALSE]
            ELSE IF t.toks = <<>> \/ t.toks[Len(t.toks)].kind # "GT"
            THEN [pp |-> Raise(t.pp, from_token(p.files,
                                  "Expected closing '>' for #include.",
                                  name_start_tok)),
                  name |-> <<>>, is_quoted |-> FALSE]
            ELSE [pp |-> t.pp,
                  name |-> Concat(Values(SubSeq(t.toks, 1, Len(t.toks) - 1))),
                  is_quoted |-> FALSE]
    IN  IF name_start_tok.kind = "STRING_LITERAL"
        THEN [pp |-> _skip_rest_of_line(p),
              name |-> SubSeq(name_start_tok.value, 2, Len(name_start_tok.value) - 1),
              is_quoted |-> TRUE]
        ELSE IF name_start_tok.kind = "LT"
        THEN Bracketed(TakeLine(p, <<>>))
        ELSE IF _is_macro(name_start_tok)
        THEN [pp |-> Raise(p, Exc("NotImplementedError", "")),
              name |-> <<>>, is_quoted |-> FALSE]
        ELSE [pp |-> Raise(p, from_token(p.files, "Expected filename after #include.",
                                         name_start_tok)),
              name |-> <<>>, is_quoted |-> FALSE]

\* The first directory of search_dirs, from position i on, that holds the name.
RECURSIVE FirstHit(_, _, _, _)
FirstHit(files, search_dirs, include_name, i) ==
    IF i > Len(search_dirs) THEN 0
    ELSE IF exists(files, normpath(join(search_dirs[i], include_name))) THEN i
    ELSE FirstHit(files, search_dirs, include_name, i + 1)

\* _find_include_path searching the same directories for both forms of #include.
_find_include_path_SkipLocal(p, include_name, is_quoted) ==
    LET search_dirs == p.include_search_dirs
        Found(hit) ==
            IF hit = 0
            THEN [pp |-> p, path |-> include_name]
            ELSE [pp |-> [p EXCEPT !.include_next_index = hit],
                  path |-> normpath(join(search_dirs[hit], include_name))]
    IN  Found(FirstHit(p.files, search_dirs, include_name, 1))

\* Preprocessor._find_include_path
_find_include_path(p, include_name, is_quoted) ==
    LET search_dirs == IF is_quoted THEN <<p.local_dir>> \o p.include_search_dirs
                       ELSE p.include_search_dirs
        Found(hit) ==
            IF hit = 0
            THEN [pp |-> p, path |-> include_name]
            ELSE [pp |-> [p EXCEPT !.include_next_index = hit],
                  path |-> normpath(join(search_dirs[hit], include_name))]
    IN  Found(FirstHit(p.files, search_dirs, include_name, 1))

\* Preprocessor._find_include_next_path
_find_include_next_path(p, include_name) ==
    LET search_dirs == SubSeq(p.include_search_dirs, p.include_next_index + 1,
                              Len(p.include_search_dirs))
        Found(hit) ==
            IF hit = 0 THEN include_name
            ELSE normpath(join(search_dirs[hit], include_name))
    IN  Found(FirstHit(p.files, search_dirs, include_name, 1))

\* The call at line 275 passes (include_source, include_path) to the
\* parameters (include_path, include_source) of _tokens_with_temp_local_dir.
IncludedTokens(include_path, include_source) ==
    GeneratorPart(include_source, include_path)

\* Preprocessor._include_file; opened lists the paths handed to open(), and
\* the message of the error leaves out the path.
_include_file(p, include_path, start_tok) ==
    IF include_path \in p.pragma_once_paths \/ include_path \in include_guarded_paths
    THEN p
    ELSE LET q == [p EXCEPT !.opened = Append(@, include_path)]
         IN  IF ~IsFile(p.files, include_path)
             THEN IF ~p.ignore_missing_includes
                  THEN Raise(q, from_token(p.files, "Cannot open included file",
                                           start_tok))
                  ELSE q
             ELSE _prepend(q, IncludedTokens(include_path,
                                             ReadFile(p.files, include_path)))

pp_include(p) ==
    LET Include(f, start_tok) == _include_file(f.pp, f.path, start_tok)
        Named(n, start_tok) ==
            IF Raising(n.pp) THEN n.pp
            ELSE Include(_find_include_path(n.pp, n.name, n.is_quoted), start_tok)
        Start(s) ==
            IF Raising(s.pp) THEN s.pp
            ELSE IF s.tok = NoTok THEN Raise(s.pp, StopIteration)
            ELSE Named(_read_include_name(s.pp, s.tok), s.tok)
    IN  Start(NextNotSpace(p))

pp_include_next(p) ==
    LET Named(n, start_tok) ==
            IF Raising(n.pp) THEN n.pp
            ELSE _include_file(n.pp, _find_include_next_path(n.pp, n.name), start_tok)
        Start(s) ==
            IF Raising(s.pp) THEN s.pp
            ELSE IF s.tok = NoTok THEN Raise(s.pp, StopIteration)
            ELSE Named(_read_include_name(s.pp, s.tok), s.tok)
    IN  Start(NextNotSpace(p))

\* The path that #pragma once records: the filename of the "once" token.
OncePath(once_tok) == once_tok.filename

pp_pragma_once(p) ==
    LET Once(s) ==
            IF Raising(s.pp) THEN s.pp
            ELSE IF s.tok = NoTok THEN Raise(s.pp, StopIteration)
            ELSE _skip_rest_of_line(
                     [s.pp EXCEPT !.curr_tok = s.tok,
                                  !.pragma_once_paths = @ \cup {OncePath(s.tok)}])
    IN  Once(NextNotSpace(p))

pp_pragma(p) ==
    LET Line(n) ==
            IF Raising(n.pp) THEN n.pp
            ELSE IF n.tok = NoTok THEN Raise(n.pp, StopIteration)
            ELSE [n.pp EXCEPT !.curr_tok = n.tok]
    IN  Line(NextNL(p))

pp_error(p) ==
    LET Error(n) ==
            IF Raising(n.pp) THEN n.pp
            ELSE IF n.tok = NoTok THEN Raise(n.pp, StopIteration)
            ELSE Raise(n.pp, from_token(p.files, "Preprocessing error.", n.tok))
    IN  Error(NextRaw(p))

pp_warning(p) ==
    LET Peeked(k) ==
            IF Raising(k.pp) THEN k.pp
            ELSE _skip_rest_of_line(
                     IF k.tok # NoTok /\ k.tok.kind = "STRING_LITERAL"
                     THEN Warn(k.pp, k.tok.value, "PycpPreprocessorWarning", k.tok)
                     ELSE k.pp)
    IN  Peeked(_peek(p))

\* Lines 98-126 of __next__: self.curr_tok is a directive hash.
Directive(p) ==
    LET Pragma(k) ==
            IF Raising(k.pp) THEN k.pp
            ELSE IF k.tok # NoTok /\ k.tok.value = str_once
            THEN pp_pragma_once(k.pp)
            ELSE pp_pragma(k.pp)
        Start(s) ==
            LET pp_start_value == s.tok.value
            IN  IF Raising(s.pp) THEN s.pp
                ELSE IF s.tok = NoTok
                THEN Raise(s.pp, from_token(p.files, "Missing preprocessor directive.",
                                            p.curr_tok))
                ELSE IF s.tok.kind = "NL" THEN s.pp
                ELSE IF pp_start_value = str_include THEN pp_include(s.pp)
                ELSE IF pp_start_value = str_include_next THEN pp_include_next(s.pp)
                ELSE IF pp_start_value = str_pragma THEN Pragma(_peek(s.pp))
                ELSE IF pp_start_value = str_error THEN pp_error(s.pp)
                ELSE IF pp_start_value = str_warning THEN pp_warning(s.pp)
                ELSE Raise(s.pp, from_token(p.files, "Invalid preprocessor directive.",
                                            s.tok))
    IN  Start(NextNotSpace(p))

\* What line 128 remembers after a directive.
AfterDirective(p) == [p EXCEPT !.prev_tok = p.curr_tok]

\* The for loop of __next__ over the iterator it holds.
RECURSIVE ForLoop(_)
ForLoop(p) ==
    LET Handled(d) == IF Raising(d) THEN d ELSE ForLoop(AfterDirective(d))
        Body(r) ==
            LET q == [r.pp EXCEPT !.curr_tok = r.tok]
            IN  IF Raising(r.pp) THEN r.pp
                ELSE IF r.tok = NoTok THEN Raise(r.pp, StopIteration)
                ELSE IF _is_macro(q.curr_tok) THEN Raise(q, Exc("NotImplementedError", ""))
                ELSE IF _is_pp_directive_hash(q.curr_tok, q.prev_tok)
                THEN Handled(Directive(q))
                ELSE IF q.curr_tok.kind \in {"NL", "WS", "COMMENT"}
                THEN ForLoop([q EXCEPT !.prev_tok = q.curr_tok])
                ELSE [q EXCEPT !.prev_tok = q.curr_tok, !.ret = q.curr_tok]
    IN  Body(Pull(p, p.for_skip + 1))

\* Preprocessor.__next__: the for loop iterates over self.raw_tokens as it is
\* when the call begins.
PreprocessorNext(p) == ForLoop([p EXCEPT !.for_skip = 0, !.exc = NoExc, !.ret = NoTok])

(***************************************************************************)
(* Specification of one Preprocessor over a Tokenizer.  The top-level      *)
(* source is made of at most MaxLines lines drawn from SourceLines; the    *)
(* file system holds the header a.h or not, and the top-level source is a  *)
(* file on disk (m.c, or a.h itself) or an in-memory string tokenized      *)
(* under the default filename.  The consumer calls next() up to MaxCalls   *)
(* times, also after StopIteration or an exception.                        *)
(***************************************************************************)
path_a_h == <<"a", ".", "h">>

path_m_c == <<"m", ".", "c">>

line_pragma_once == <<"#">> \o str_pragma \o <<" ">> \o str_once \o <<"\n">>

line_include_a_h == <<"#">> \o str_include \o <<" ", "\"">> \o path_a_h \o <<"\"", "\n">>

\* The header of the spec's example: #pragma once, then int X;
source_a_h == line_pragma_once \o <<"i", "n", "t", " ", "X", ";", "\n">>

SourceLines ==
    { <<"x", "\n">>,
      <<"\n">>,
      <<"#", "\n">>,
      line_pragma_once,
      line_include_a_h,
      <<"#">> \o str_warning \o <<" ", "\"", "w", "\"", "\n">>,
      <<"y", "#">> \o str_pragma \o <<" ", "z", "\n">> }

Sources(lines, n) == {Concat(ls) : ls \in UNION {[1..k -> lines] : k \in 0..n}}

\* The environments: the name the top-level Tokenizer is given and the files
\* that exist besides the top-level source.
Environments ==
    { [filename |-> path_m_c, on_disk |-> TRUE, others |-> {}],
      [filename |-> path_m_c, on_disk |-> TRUE, others |-> { <<path_a_h, source_a_h>> }],
      [filename |-> UnknownFilename, on_disk |-> FALSE, others |-> {}],
      [filename |-> UnknownFilename, on_disk |-> FALSE,
       others |-> { <<path_a_h, source_a_h>> }],
      [filename |-> path_a_h, on_disk |-> TRUE, others |-> {}] }

FilesOf(env, source) ==
    env.others \cup (IF env.on_disk THEN { <<env.filename, source>> } ELSE {})

TokIdle == NewTokenizer(<<>>, <<>>)

PPInit ==
    /\ \E source \in Sources(SourceLines, MaxLines), env \in Environments,
          ignore_missing_includes \in BOOLEAN :
           pp = NewPreprocessor(NewTokenizer(source, env.filename), <<>>, <<>>,
                                ignore_missing_includes, FilesOf(env, source))
    /\ pp_emitted = <<>>
    /\ pp_hist = <<>>
    /\ tokenizer = TokIdle
    /\ tok_emitted = <<>>
    /\ tok_hist = <<>>
    /\ enum_cls = EnumIdle

PPOutcome(p) ==
    [res |-> IF p.exc.type = "none" THEN "tok"
             ELSE IF p.exc.type = "StopIteration" THEN "stop" ELSE "exc",
     exc |-> p.exc]

PPCall(res) ==
    /\ Len(pp_hist) < MaxCalls
    /\ LET Update(p) ==
               /\ PPOutcome(p).res = res
               /\ pp' = p
               /\ pp_emitted' = IF res = "tok" THEN Append(pp_emitted, p.ret)
                                ELSE pp_emitted
               /\ pp_hist' = Append(pp_hist, PPOutcome(p))
       IN  Update(PreprocessorNext(pp))
    /\ UNCHANGED <<tok_vars, enum_cls>>

PPNextToken == PPCall("tok")

PPNextStop == PPCall("stop")

PPNextRaise == PPCall("exc")

Next == PPNextToken \/ PPNextStop \/ PPNextRaise

Init == PPInit

Spec == Init /\ [][Next]_vars

(***************************************************************************)
(* Claims about the Tokenizer, checked under SpecTok.                      *)
(***************************************************************************)

\* C1: round-trip law.  When the iteration over a Tokenizer has ended and no
\* lexical error (PycpSyntaxError) was raised, the concatenation of the
\* values of all emitted tokens, in emission order, is the source.
C1_RoundTrip ==
    (FirstEnd(tok_hist) /\ ~Raised(tok_hist, {"PycpSyntaxError"}))
        => Concat(Values(tok_emitted)) = tokenizer.source

\* C2: terminal state.  Once a next() call has signalled end-of-input, every
\* later call signals end-of-input again, returns no token and leaves
\* previous, current and lineno as they were.
C2_TerminalState ==
    [][(Stopped(tok_hist) /\ tok_hist' # tok_hist)
          => /\ Last(tok_hist').res = "stop"
             /\ tok_emitted' = tok_emitted
             /\ tokenizer'.previous = tokenizer.previous
             /\ tokenizer'.current = tokenizer.current
             /\ tokenizer'.lineno = tokenizer.lineno]_vars

\* C2 witness: end-of-input was signalled twice in a row after tokens were
\* returned.
C2_Witness ==
    /\ Len(tok_hist) >= 2
    /\ tok_hist[Len(tok_hist) - 1].res = "stop"
    /\ Last(tok_hist).res = "stop"
    /\ tok_emitted # <<>>

CursorInv ==
    /\ 0 <= tokenizer.previous
    /\ tokenizer.previous <= tokenizer.current
    /\ tokenizer.current <= tokenizer.end

\* C3: cursor invariant.  0 <= previous <= current <= end holds in every
\* state, also after calls that raised, and previous changes only in a call
\* that returns a token, which sets it to current.
C3_CursorInvariant ==
    /\ []CursorInv
    /\ [][tokenizer'.previous # tokenizer.previous
             => /\ Last(tok_hist').res = "tok"
                /\ Len(tok_emitted') = Len(tok_emitted) + 1
                /\ tokenizer'.previous = tokenizer'.current]_vars

\* C3 witness: a call raised a lexical error after moving the cursor, and a
\* later call returned a token.
C3_Witness ==
    /\ Len(tok_hist) >= 2
    /\ tok_hist[Len(tok_hist) - 1].res = "exc"
    /\ tok_hist[Len(tok_hist) - 1].exc.type = "PycpSyntaxError"
    /\ Last(tok_hist).res = "tok"
    /\ tokenizer.previous > 0

(***************************************************************************)
(* Claims about the Preprocessor, checked under Spec.                      *)
(***************************************************************************)
BottomPart(p) == p.raw_tokens[Len(p.raw_tokens)]

TopSource == BottomPart(pp).tz.source

TopFilename == BottomPart(pp).tz.filename

\* list(Tokenizer(source, filename)) up to the first StopIteration or raise.
RECURSIVE TokensFrom(_)
TokensFrom(tz) ==
    LET r == TokenizerNext(tz)
    IN  IF r.res = "tok" THEN <<r.tok>> \o TokensFrom(r.tz) ELSE <<>>

Tokens(source, filename) == TokensFrom(NewTokenizer(source, filename))

\* The token sequence the Preprocessor was constructed on.
Upstream == Tokens(TopSource, TopFilename)

IsSpace(tok) == tok.kind \in {"WS", "COMMENT", "NL"}

\* The token at position i is the first of the input or directly follows a
\* newline token.
AtLineStart(toks, i) == i = 1 \/ toks[i - 1].kind = "NL"

\* The token at position i lies on a line whose first token is a #.
OnDirectiveLine(toks, i) ==
    \E j \in 1..i :
        /\ AtLineStart(toks, j)
        /\ toks[j].kind = "PP_OCTO"
        /\ \A k \in j..(i - 1) : toks[k].kind # "NL"

\* The tokens of a stream that are neither space nor part of a directive line.
RECURSIVE PassThroughFrom(_, _)
PassThroughFrom(toks, i) ==
    IF i > Len(toks) THEN <<>>
    ELSE (IF ~IsSpace(toks[i]) /\ ~OnDirectiveLine(toks, i) THEN <<toks[i]>> ELSE <<>>)
         \o PassThroughFrom(toks, i + 1)

PassThrough(toks) == PassThroughFrom(toks, 1)

NotSpace(toks) == SelectSeq(toks, LAMBDA t : ~IsSpace(t))

Range(seq) == {seq[i] : i \in 1..Len(seq)}

RaisedAny(h) == \E i \in 1..Len(h) : h[i].res = "exc"

\* Nothing is left in self.raw_tokens.
Exhausted(p) ==
    LET r == NextRaw([p EXCEPT !.exc = NoExc])
    IN  r.tok = NoTok /\ ~Raising(r.pp)

\* The consumer was told the input has ended, and no token is left behind.
Drained == Stopped(pp_hist) /\ Last(pp_hist).res = "stop" /\ Exhausted(pp)

\* C4: pass-through.  When the stream has ended without an exception, the
\* emitted tokens that are upstream tokens outside directive lines are
\* exactly those tokens, once each and in upstream order; and for an input
\* without any # token the output is the upstream sequence without its
\* whitespace, comment and newline tokens.
C4_PassThrough ==
    (Stopped(pp_hist) /\ ~RaisedAny(pp_hist))
        => LET expected == PassThrough(Upstream)
           IN  /\ SelectSeq(pp_emitted, LAMBDA t : t \in Range(expected)) = expected
               /\ (\A i \in 1..Len(Upstream) : Upstream[i].kind # "PP_OCTO")
                      => pp_emitted = NotSpace(Upstream)

\* C5: directive recognition.  No # token that is the first token of the
\* input or directly follows a newline token is ever emitted.
C5_DirectiveRecognition ==
    \A i \in 1..Len(pp_emitted) :
        \A j \in 1..Len(Upstream) :
            (Upstream[j] = pp_emitted[i] /\ Upstream[j].kind = "PP_OCTO")
                => ~AtLineStart(Upstream, j)

PlainLines == { <<"x", "\n">>, <<"\n">> }

HeaderPresent == <<path_a_h, source_a_h>> \in pp.files

\* The lines of a source, each with its newline.
RECURSIVE SplitLines(_, _)
SplitLines(s, acc) ==
    IF s = <<>> THEN (IF acc = <<>> THEN <<>> ELSE <<acc>>)
    ELSE IF Head(s) = "\n" THEN <<Append(acc, "\n")>> \o SplitLines(Tail(s), <<>>)
    ELSE SplitLines(Tail(s), Append(acc, Head(s)))

TopLines == SplitLines(TopSource, <<>>)

\* The top-level source has #include "a.h" at each of the given lines and only
\* lines without directives elsewhere.
IncludesAt(positions) ==
    \A k \in 1..Len(TopLines) :
        IF k \in positions THEN TopLines[k] = line_include_a_h
        ELSE TopLines[k] \in PlainLines

\* C6: include splice ordering.  For a top-level source P, #include "a.h", S
\* with P and S free of directives and a.h openable, the drained output is
\* the output for P, then the resolved tokens of the contents of a.h, then
\* the output for S.
C6_SpliceOrdering ==
    (Drained /\ ~RaisedAny(pp_hist) /\ HeaderPresent)
        => \A i \in 1..Len(TopLines) :
               IncludesAt({i})
                   => LET P == Concat(SubSeq(TopLines, 1, i - 1))
                          S == Concat(SubSeq(TopLines, i + 1, Len(TopLines)))
                      IN  Values(pp_emitted)
                            = Values(NotSpace(Tokens(P, TopFilename)))
                              \o Values(PassThrough(Tokens(source_a_h, path_a_h)))
                              \o Values(NotSpace(Tokens(S, TopFilename)))

HeaderValues == { <<"i", "n", "t">>, <<"X">>, <<";">> }

\* C7: pragma once end to end.  With a.h holding #pragma once and int X;, a
\* source that contains #include "a.h" twice yields int, X, ; exactly once.
C7_PragmaOnceEndToEnd ==
    (Drained /\ ~RaisedAny(pp_hist) /\ HeaderPresent)
        => \A i \in 1..Len(TopLines), j \in 1..Len(TopLines) :
               (i < j /\ IncludesAt({i, j}))
                   => SelectSeq(Values(pp_emitted), LAMBDA v : v \in HeaderValues)
                        = <<(<<"i", "n", "t">>), (<<"X">>), (<<";">>)>>

\* One of the lines of the source is #pragma once.
HasPragmaOnce(source) == line_pragma_once \in Range(SplitLines(source, <<>>))

\* C8: once-set semantics.  #pragma once records the path of the file that
\* contains it: when the stream is drained without an exception, the
\* top-level file and every included file that has a #pragma once line is in
\* the once-set, and every recorded path is the top-level file or an included
\* file.  The once-set only grows, and a call never opens a path that was in
\* the once-set when the call began.
C8_OnceSet ==
    [][/\ (Stopped(pp_hist') /\ Last(pp_hist').res = "stop" /\ Exhausted(pp')
           /\ ~RaisedAny(pp_hist'))
             => /\ HasPragmaOnce(TopSource) => TopFilename \in pp'.pragma_once_paths
                /\ \A path \in Range(pp'.opened) :
                       (IsFile(pp'.files, path) /\ HasPragmaOnce(ReadFile(pp'.files, path)))
                           => path \in pp'.pragma_once_paths
                /\ pp'.pragma_once_paths \subseteq {TopFilename} \cup Range(pp'.opened)
       /\ pp.pragma_once_paths \subseteq pp'.pragma_once_paths
       /\ \A i \in (Len(pp.opened) + 1)..Len(pp'.opened) :
              pp'.opened[i] \notin pp.pragma_once_paths]_vars

\* The position in toks of the n-th token that is neither whitespace nor
\* comment after position j, or 0.
RECURSIVE NthNotSpaceAfter(_, _, _)
NthNotSpaceAfter(toks, j, n) ==
    IF j + 1 > Len(toks) THEN 0
    ELSE IF ~_is_not_space(toks[j + 1]) THEN NthNotSpaceAfter(toks, j + 1, n)
    ELSE IF n = 1 THEN j + 1
    ELSE NthNotSpaceAfter(toks, j + 1, n - 1)

\* A failed open() of an include in strict mode has happened.
StrictOpenFailed(p) ==
    /\ ~p.ignore_missing_includes
    /\ \E i \in 1..Len(p.opened) : ~IsFile(p.files, p.opened[i])

\* The exception e is the error msg located at token tok.
IsSyntaxErrorAt(e, msg, tok) ==
    /\ e.type = "PycpSyntaxError"
    /\ e.msg = msg
    /\ e.filename = tok.filename
    /\ e.lineno = tok.lineno
    /\ e.offset = tok.col_offset
    /\ e.end_offset = tok.end_col_offset

\* C9: missing include, strict mode.  The call in which the open() of an
\* include fails raises the error "Cannot open included file" located at the
\* include-target token (the second token after the directive's #), and no
\* call after it returns a token.
C9_StrictMissingInclude ==
    [][/\ (~StrictOpenFailed(pp) /\ StrictOpenFailed(pp'))
             => /\ Last(pp_hist').res = "exc"
                /\ \E j \in 1..Len(Upstream) :
                       /\ Upstream[j] = pp'.curr_tok
                       /\ NthNotSpaceAfter(Upstream, j, 2) # 0
                       /\ IsSyntaxErrorAt(Last(pp_hist').exc,
                                          "Cannot open included file",
                                          Upstream[NthNotSpaceAfter(Upstream, j, 2)])
       /\ StrictOpenFailed(pp) => pp_emitted' = pp_emitted]_vars

Without(seq, i) == SubSeq(seq, 1, i - 1) \o SubSeq(seq, i + 1, Len(seq))

\* The values a consumer collects from a Preprocessor by calling next()
\* until the input is drained or a call raises, and whether a call raised.
RECURSIVE RunFrom(_, _)
RunFrom(p, values) ==
    LET q == PreprocessorNext(p)
    IN  IF PPOutcome(q).res = "exc" THEN [values |-> values, raised |-> TRUE]
        ELSE IF PPOutcome(q).res = "stop"
        THEN IF Exhausted(q) THEN [values |-> values, raised |-> FALSE]
             ELSE RunFrom(q, values)
        ELSE RunFrom(q, Append(values, q.ret.value))

\* The run of a Preprocessor like pp on another top-level source.
ReferenceRun(source) ==
    RunFrom(NewPreprocessor(NewTokenizer(source, TopFilename), <<>>,
                            pp.include_search_dirs, pp.ignore_missing_includes,
                            (pp.files \ { <<TopFilename, TopSource>> })
                                \cup (IF IsFile(pp.files, TopFilename)
                                      THEN { <<TopFilename, source>> } ELSE {})),
            <<>>)

\* C10: missing include, lenient mode.  With ignore_missing_includes set and
\* a.h missing, a run over a source with an #include "a.h" line raises and
\* emits exactly what the run over the source without that line does.
C10_LenientMissingInclude ==
    (/\ pp.ignore_missing_includes
     /\ ~IsFile(pp.files, path_a_h)
     /\ (Drained \/ (FirstEnd(pp_hist) /\ RaisedAny(pp_hist))))
        => \A i \in 1..Len(TopLines) :
               TopLines[i] = line_include_a_h
                   => LET ref == ReferenceRun(Concat(Without(TopLines, i)))
                      IN  /\ ref.raised = RaisedAny(pp_hist)
                          /\ ref.values = Values(pp_emitted)

(***************************************************************************)
(* Specification of a Preprocessor that resolves includes.  The top-level  *)
(* file m.c holds at most MaxIncLines lines drawn from IncludeLines; a     *)
(* header named h exists in any of the current directory and the           *)
(* directories l, d and e; the caller passes local_dir and assigns         *)
(* include_search_dirs and ignore_missing_includes.                        *)
(***************************************************************************)
path_h == <<"h">>

dir_l == <<"l">>

dir_d == <<"d">>

dir_e == <<"e">>

source_h == <<"x", "\n">>

line_include_quoted_h == <<"#">> \o str_include \o <<" ", "\"", "h", "\"", "\n">>

line_include_angle_h == <<"#">> \o str_include \o <<" ", "<", "h", ">", "\n">>

line_include_angle_open == <<"#">> \o str_include \o <<" ", "<", "h", "\n">>

line_include_angle_space == <<"#">> \o str_include \o <<" ", "<", "h", ">", " ", "\n">>

line_include_next_h == <<"#">> \o str_include_next \o <<" ", "<", "h", ">", "\n">>

IncludeLines ==
    { <<"x", "\n">>,
      line_include_quoted_h,
      line_include_angle_h,
      line_include_angle_open,
      line_include_angle_space,
      line_include_next_h }

HeaderPaths ==
    { path_h,
      dir_l \o <<"/">> \o path_h,
      dir_d \o <<"/">> \o path_h,
      dir_e \o <<"/">> \o path_h }

LocalDirs == { <<>>, dir_l }

SearchDirLists == { <<>>, <<dir_d>>, <<dir_d, dir_e>>, <<dir_e, dir_d>> }

IncInit ==
    /\ \E source \in Sources(IncludeLines, MaxIncLines), present \in SUBSET HeaderPaths,
          local_dir \in LocalDirs, include_search_dirs \in SearchDirLists,
          ignore_missing_includes \in BOOLEAN :
           pp = NewPreprocessor(NewTokenizer(source, path_m_c), local_dir,
                                include_search_dirs, ignore_missing_includes,
                                { <<path, source_h>> : path \in present }
                                    \cup { <<path_m_c, source>> })
    /\ pp_emitted = <<>>
    /\ pp_hist = <<>>
    /\ tokenizer = TokIdle
    /\ tok_emitted = <<>>
    /\ tok_hist = <<>>
    /\ enum_cls = EnumIdle

SpecInc == IncInit /\ [][Next]_vars

\* The position in Upstream of the # of the first directive line, or 0.
FirstDirective ==
    LET hashes == {j \in 1..Len(Upstream) :
                       Upstream[j].kind = "PP_OCTO" /\ AtLineStart(Upstream, j)}
    IN  IF hashes = {} THEN 0 ELSE MinOf(hashes)

\* The include-target token of the first directive line when that line is an
\* #include, else NoTok.
FirstIncludeTarget ==
    LET j == FirstDirective
        name == IF j = 0 THEN 0 ELSE NthNotSpaceAfter(Upstream, j, 1)
        target == IF j = 0 THEN 0 ELSE NthNotSpaceAfter(Upstream, j, 2)
    IN  IF name # 0 /\ target # 0 /\ Upstream[name].value = str_include
        THEN Upstream[target] ELSE NoTok

\* The name p in the directory dir.
InDir(dir, p) == IF dir = <<>> THEN p ELSE dir \o <<"/">> \o p

\* The path of p in the first of dirs in which the file exists, else p.
RECURSIVE Resolve(_, _, _)
Resolve(files, dirs, p) ==
    IF dirs = <<>> THEN p
    ELSE IF IsFile(files, InDir(Head(dirs), p)) THEN InDir(Head(dirs), p)
    ELSE Resolve(files, Tail(dirs), p)

Unquoted(literal) == SubSeq(literal, 2, Len(literal) - 1)

\* The call that opens the first include takes it from the first directive.
FirstOpen == pp.opened = <<>> /\ pp'.opened # <<>>

\* C11: quoted include resolution.  For #include "p" the path opened is p,
\* the literal without its quotes, in the first of local_dir,
\* include_search_dirs[0], include_search_dirs[1], ... in which the file
\* exists, and p itself when it exists in none of them.
C11_QuotedResolution ==
    [][(FirstOpen /\ FirstIncludeTarget.kind = "STRING_LITERAL")
          => pp'.opened[1] = Resolve(pp.files,
                                     <<pp.local_dir>> \o pp.include_search_dirs,
                                     Unquoted(FirstIncludeTarget.value))]_vars

\* A quoted include was resolved in the second search directory.
C11_Witness ==
    /\ pp.opened # <<>>
    /\ FirstIncludeTarget.kind = "STRING_LITERAL"
    /\ Len(pp.include_search_dirs) = 2
    /\ pp.opened[1] = InDir(pp.include_search_dirs[2], path_h)
    /\ IsFile(pp.files, path_h)

\* The tokens after position j up to, and without, the next newline token.
RECURSIVE RestOfLine(_, _)
RestOfLine(toks, j) ==
    IF j + 1 > Len(toks) \/ toks[j + 1].kind = "NL" THEN <<>>
    ELSE <<toks[j + 1]>> \o RestOfLine(toks, j + 1)

\* The tokens that follow the < of the first directive line, an #include <,
\* on its line.
AfterAngle ==
    RestOfLine(Upstream,
               NthNotSpaceAfter(Upstream, FirstDirective, 2))

\* The position in a token sequence of the first > token, or 0.
FirstGT(toks) ==
    LET gts == {i \in 1..Len(toks) : toks[i].kind = "GT"}
    IN  IF gts = {} THEN 0 ELSE MinOf(gts)

\* The texts of the tokens between the < and the first > after it.
AngleName == Concat(Values(SubSeq(AfterAngle, 1, FirstGT(AfterAngle) - 1)))

\* C12: angle-bracket include resolution.  For #include <p> the path opened
\* is p in the first directory of include_search_dirs in which the file
\* exists, else p; and when the file exists in local_dir and in no search
\* directory, the file of local_dir is not the one opened.
C12_AngleResolution ==
    [][(FirstOpen /\ FirstIncludeTarget.kind = "LT" /\ FirstGT(AfterAngle) # 0)
          => /\ pp'.opened[1] = Resolve(pp.files, pp.include_search_dirs, AngleName)
             /\ (/\ IsFile(pp.files, InDir(pp.local_dir, AngleName))
                 /\ \A i \in 1..Len(pp.include_search_dirs) :
                        ~IsFile(pp.files, InDir(pp.include_search_dirs[i], AngleName)))
                    => pp'.opened[1] # InDir(pp.local_dir, AngleName)]_vars

\* The offset in the source at which the token at position j begins.
RECURSIVE Offset(_, _)
Offset(toks, j) == IF j <= 1 THEN 0 ELSE Offset(toks, j - 1) + Len(toks[j - 1].value)

\* The call in which the top-level Tokenizer hands out the # of the first
\* directive line.
FirstDirectiveStep ==
    /\ FirstDirective # 0
    /\ BottomPart(pp).tz.current <= Offset(Upstream, FirstDirective)
    /\ BottomPart(pp').tz.current > Offset(Upstream, FirstDirective)

ExpectedClosingAngle(outcome) ==
    /\ outcome.res = "exc"
    /\ outcome.exc.type = "PycpSyntaxError"
    /\ outcome.exc.msg = "Expected closing '>' for #include."

\* C13: angle-bracket include syntax.  The call that handles #include <
\* raises the error "Expected closing '>' for #include." exactly when no >
\* token stands between the < and the end of the line; otherwise the path it
\* resolves and opens is the concatenated text of the tokens between the <
\* and the >.
C13_AngleSyntax ==
    [][(FirstDirectiveStep /\ FirstIncludeTarget.kind = "LT")
          => /\ ExpectedClosingAngle(Last(pp_hist')) <=> FirstGT(AfterAngle) = 0
             /\ FirstGT(AfterAngle) # 0
                    => pp'.opened = <<Resolve(pp.files, pp.include_search_dirs,
                                              AngleName)>>]_vars

(***************************************************************************)
(* Specification of one Tokenizer over sources made of lexemes: up to      *)
(* MaxPieces pieces of LexPieces, or one of the two whole programs below.  *)
(* The consumer iterates over the instance as a for loop does: it calls    *)
(* next() until the first call that does not return a token.               *)
(***************************************************************************)
\* _KEYWORD_TOKEN_MAP as a set of <<keyword, kind>> pairs.
KEYWORD_TOKEN_MAP ==
    { <<(<<"a", "u", "t", "o">>), "AUTO">>,
      <<(<<"b", "r", "e", "a", "k">>), "BREAK">>,
      <<(<<"c", "a", "s", "e">>), "CASE">>,
      <<(<<"c", "h", "a", "r">>), "CHAR">>,
      <<(<<"c", "o", "n", "s", "t">>), "CONST">>,
      <<(<<"c", "o", "n", "t", "i", "n", "u", "e">>), "CONTINUE">>,
      <<(<<"d", "e", "f", "a", "u", "l", "t">>), "DEFAULT">>,
      <<(<<"d", "o">>), "DO">>,
      <<(<<"d", "o", "u", "b", "l", "e">>), "DOUBLE">>,
      <<(<<"e", "l", "s", "e">>), "ELSE">>,
      <<(<<"e", "n", "u", "m">>), "ENUM">>,
      <<(<<"e", "x", "t", "e", "r", "n">>), "EXTERN">>,
      <<(<<"f", "l", "o", "a", "t">>), "FLOAT">>,
      <<(<<"f", "o", "r">>), "FOR">>, <<(<<"g", "o", "t", "o">>), "GOTO">>,
      <<(<<"i", "f">>), "IF">>,
      <<(<<"i", "n", "l", "i", "n", "e">>), "INLINE">>,
      <<(<<"i", "n", "t">>), "INT">>, <<(<<"l", "o", "n", "g">>), "LONG">>,
      <<(<<"r", "e", "g", "i", "s", "t", "e", "r">>), "REGISTER">>,
      <<(<<"r", "e", "s", "t", "r", "i", "c", "t">>), "RESTRICT">>,
      <<(<<"r", "e", "t", "u", "r", "n">>), "RETURN">>,
      <<(<<"s", "h", "o", "r", "t">>), "SHORT">>,
      <<(<<"s", "i", "g", "n", "e", "d">>), "SIGNED">>,
      <<(<<"s", "i", "z", "e", "o", "f">>), "SIZEOF">>,
      <<(<<"s", "t", "a", "t", "i", "c">>), "STATIC">>,
      <<(<<"s", "t", "r", "u", "c", "t">>), "STRUCT">>,
      <<(<<"s", "w", "i", "t", "c", "h">>), "SWITCH">>,
      <<(<<"t", "y", "p", "e", "d", "e", "f">>), "TYPEDEF">>,
      <<(<<"u", "n", "i", "o", "n">>), "UNION">>,
      <<(<<"u", "n", "s", "i", "g", "n", "e", "d">>), "UNSIGNED">>,
      <<(<<"v", "o", "i", "d">>), "VOID">>,
      <<(<<"v", "o", "l", "a", "t", "i", "l", "e">>), "VOLATILE">>,
      <<(<<"w", "h", "i", "l", "e">>), "WHILE">>,
      <<(<<"_", "_", "i", "n", "t", "1", "2", "8">>), "INT128__">>,
      <<(<<"_", "A", "l", "i", "g", "n", "a", "s">>), "ALIGNAS_">>,
      <<(<<"_", "A", "l", "i", "g", "n", "o", "f">>), "ALIGNOF_">>,
      <<(<<"_", "A", "t", "o", "m", "i", "c">>), "ATOMIC_">>,
      <<(<<"_", "B", "o", "o", "l">>), "BOOL_">>,
      <<(<<"_", "C", "o", "m", "p", "l", "e", "x">>), "COMPLEX_">>,
      <<(<<"_", "G", "e", "n", "e", "r", "i", "c">>), "GENERIC_">>,
      <<(<<"_", "I", "m", "a", "g", "i", "n", "a", "r", "y">>), "IMAGINARY_">>,
      <<(<<"_", "N", "o", "r", "e", "t", "u", "r", "n">>), "NORETURN_">>,
      <<(<<"_", "P", "r", "a", "g", "m", "a">>), "PRAGMA_">>,
      <<(<<"_", "S", "t", "a", "t", "i", "c", "_", "a", "s", "s", "e", "r", "t">>), "STATIC_ASSERT_">>,
      <<(<<"_", "T", "h", "r", "e", "a", "d", "_", "l", "o", "c", "a", "l">>), "THREAD_LOCAL_">> }

Keywords == {e[1] : e \in KEYWORD_TOKEN_MAP}

\* TokenKind.from_keyword; "" stands for the ValueError.
from_keyword(name) ==
    IF name \in Keywords
    THEN (CHOOSE e \in KEYWORD_TOKEN_MAP : e[1] = name)[2]
    ELSE ""

test_source ==
    << "i", "n", "t", " ", "m", "a", "i", "n", "(", "v", "o", "i", "d", ")",
       " ", "{", "\n", " ", " ", " ", " ", "r", "e", "t", "u", "r", "n", " ",
       "1", ";", "\n", "}", "\n" >>

\* The same program on one line.
one_line_source ==
    << "i", "n", "t", " ", "m", "a", "i", "n", "(", "v", "o", "i", "d", ")",
       " ", "{", " ", "r", "e", "t", "u", "r", "n", " ", "1", ";", " ", "}",
       "\n" >>

comment_two_lines == <<"/", "*", "\n", "*", "/">>

LexPieces ==
    { <<"<">>, <<"=">>, <<">">>,
      <<"i", "n", "t">>, <<"r", "e", "t", "u", "r", "n">>,
      <<"_", "A", "l", "i", "g", "n", "a", "s">>,
      <<"a">>, <<"L">>, <<" ">>,
      <<"\"">>, <<"'">>, <<"\\">>, <<"\\", "\\">>, <<"\\", "\n">>,
      <<"\n">>, <<"\r">>,
      <<"/">>, <<"*">>, comment_two_lines }

LexSources ==
    {Concat(pieces) : pieces \in Strings(LexPieces, MaxPieces)}
        \cup {test_source, one_line_source}

LexInit ==
    /\ \E source \in LexSources :
           tokenizer = NewTokenizer(source, UnknownFilename)
    /\ tok_emitted = <<>>
    /\ tok_hist = <<>>
    /\ pp = PPIdle
    /\ pp_emitted = <<>>
    /\ pp_hist = <<>>
    /\ enum_cls = EnumIdle

\* No call so far has ended the iteration.
Iterating(h) == \A i \in 1..Len(h) : h[i].res = "tok"

LexCall(res) ==
    /\ Iterating(tok_hist)
    /\ LET r == TokenizerNext(tokenizer)
       IN  /\ r.res = res
           /\ tokenizer' = r.tz
           /\ tok_emitted' = IF res = "tok" THEN Append(tok_emitted, r.tok)
                             ELSE tok_emitted
           /\ tok_hist' = Append(tok_hist, Outcome(r))
    /\ UNCHANGED <<pp_vars, enum_cls>>

LexNextToken == LexCall("tok")

LexNextStop == LexCall("stop")

LexNextRaise == LexCall("exc")

LexNext == LexNextToken \/ LexNextStop \/ LexNextRaise

SpecLex == LexInit /\ [][LexNext]_vars

\* A call of next() is made with the cursor before the end of the source.
Scanning == tok_hist' # tok_hist /\ tokenizer.current < tokenizer.end

\* The latest call returned a token with this text.
Returned(value) ==
    /\ Last(tok_hist').res = "tok"
    /\ tok_emitted' = Append(tok_emitted, Last(tok_emitted'))
    /\ Last(tok_emitted').value = value

\* The latest call raised PycpSyntaxError with this message and returned
\* no token.
RaisedSyntaxError(msg) ==
    /\ Last(tok_hist').res = "exc"
    /\ Last(tok_hist').exc.type = "PycpSyntaxError"
    /\ Last(tok_hist').exc.msg = msg
    /\ tok_emitted' = tok_emitted

\* The registered punctuators that are a prefix of the source at off.
PunctuatorsAt(s, off) == {p \in Punctuators : StartsWith(s, p, off)}

LongestPunctuator(s, off) ==
    CHOOSE p \in PunctuatorsAt(s, off) :
        \A q \in PunctuatorsAt(s, off) : Len(q) <= Len(p)

\* A punctuator starts at off: a registered punctuator stands there and the
\* position opens neither a comment nor a numeric literal.
PunctuatorStarts(s, off) ==
    /\ PunctuatorsAt(s, off) # {}
    /\ ~StartsWithAny(s, { <<"/", "/">>, <<"/", "*">> }, off)
    /\ ~(At(s, off) = "." /\ isdecimal(tokenizer_peek(s, off)))

\* C14: longest-match punctuator scanning.  A call made at a position where
\* a punctuator starts returns one token whose text is the longest registered
\* punctuator that is a prefix of the remaining source, with that
\* punctuator's kind.
C14_LongestPunctuator ==
    [][(Scanning /\ PunctuatorStarts(tokenizer.source, tokenizer.current))
          => /\ Returned(LongestPunctuator(tokenizer.source, tokenizer.current))
             /\ Last(tok_emitted').kind =
                    from_punctuator(LongestPunctuator(tokenizer.source,
                                                      tokenizer.current))]_vars

\* The source <<= has been tokenized to its end as one LSHIFTEQUAL token.
C14_Witness ==
    /\ tokenizer.source = <<"<", "<", "=">>
    /\ Values(tok_emitted) = << <<"<", "<", "=">> >>
    /\ tok_emitted[1].kind = "LSHIFTEQUAL"
    /\ tok_hist # <<>>
    /\ Last(tok_hist).res = "stop"

\* The text of a token scanned by Tokenizer.identifier.
IsIdentifierText(value) ==
    /\ value # <<>>
    /\ can_start_identifier(value[1])
    /\ \A i \in 2..Len(value) : can_end_identifier(value[i])

\* C15: keyword classification.  An emitted identifier token whose text is a
\* key of the keyword table has the kind the table gives for it, and every
\* other identifier token has the kind ID.
C15_KeywordClassification ==
    \A i \in 1..Len(tok_emitted) :
        IsIdentifierText(tok_emitted[i].value)
            => tok_emitted[i].kind =
                   IF tok_emitted[i].value \in Keywords
                   THEN from_keyword(tok_emitted[i].value)
                   ELSE "ID"

Kinds(toks) == [i \in 1..Len(toks) |-> toks[i].kind]

\* C16: tokenizing the program `int main(void) { return 1; }` followed by
\* one newline (on one line, or on the three lines of test_source) ends
\* without an error and yields the kinds INT, WS, ID, LPAREN, VOID, RPAREN,
\* WS, LBRACE, NL, WS, RETURN, WS, PP_NUM, SEMICOLON, NL, RBRACE, NL.
C16_TestProgram ==
    (tokenizer.source \in {one_line_source, test_source} /\ FirstEnd(tok_hist))
        => /\ Last(tok_hist).res = "stop"
           /\ Kinds(tok_emitted) =
                  <<"INT", "WS", "ID", "LPAREN", "VOID", "RPAREN", "WS",
                    "LBRACE", "NL", "WS", "RETURN", "WS", "PP_NUM",
                    "SEMICOLON", "NL", "RBRACE", "NL">>

\* A string literal or char constant, with its prefix if any, starts at off.
LiteralStarts(s, off) == StartsWithAny(s, StringOpeners \cup CharOpeners, off)

\* The position of the opening quote of the literal that starts at off.
QuoteStart(s, off) ==
    MinOf({q \in off..(Len(s) - 1) : At(s, q) \in {"\"", "'"}})

\* The number of consecutive backslashes that directly precede position i,
\* counted back no further than lo.
RECURSIVE BackslashRun(_, _, _)
BackslashRun(s, lo, i) ==
    IF i > lo /\ At(s, i - 1) = "\\" THEN 1 + BackslashRun(s, lo, i - 1) ELSE 0

\* The positions after the opening quote at q that hold the same quote
\* character behind an even-length run of backslashes.
ClosingQuotes(s, q) ==
    {i \in (q + 1)..(Len(s) - 1) :
        At(s, i) = At(s, q) /\ BackslashRun(s, q + 1, i) % 2 = 0}

\* The line of the source, counted from 1, that holds position off.
LineOf(s, off) ==
    1 + Cardinality({i \in 0..(off - 1) :
                        \/ At(s, i) = "\n"
                        \/ At(s, i) = "\r" /\ At(s, i + 1) # "\n"})

UnclosedMsg(quote_char) ==
    IF quote_char = "'" THEN "Unclosed char const."
    ELSE "Unclosed string literal."

\* C17: unterminated literal.  A call made at the start of a string literal
\* or char constant that has no unescaped closing quote of its kind before
\* the end of the source raises the Unclosed error of that kind, returns no
\* token, and the error's lineno is the line on which the literal starts.
C17_UnterminatedLiteral ==
    [][(/\ Scanning
        /\ LiteralStarts(tokenizer.source, tokenizer.current)
        /\ ClosingQuotes(tokenizer.source,
                         QuoteStart(tokenizer.source, tokenizer.current)) = {})
          => /\ RaisedSyntaxError(
                    UnclosedMsg(At(tokenizer.source,
                                   QuoteStart(tokenizer.source,
                                              tokenizer.current))))
             /\ Last(tok_hist').exc.lineno =
                    LineOf(tokenizer.source, tokenizer.current)]_vars

\* C18: escaped-quote rule.  A literal ends at the first quote of its kind
\* that stands behind an even-length run of backslashes (none included): a
\* call made at the start of a literal that has such a quote, with no line
\* break before it, returns the token that ends with that quote.
C18_EscapedQuote ==
    [][(/\ Scanning
        /\ LiteralStarts(tokenizer.source, tokenizer.current)
        /\ ClosingQuotes(tokenizer.source,
                         QuoteStart(tokenizer.source, tokenizer.current)) # {}
        /\ \A i \in tokenizer.current..(tokenizer.end - 1) :
               At(tokenizer.source, i) \notin {"\n", "\r"})
          => Returned(Slice(tokenizer.source, tokenizer.current,
                            1 + MinOf(ClosingQuotes(
                                    tokenizer.source,
                                    QuoteStart(tokenizer.source,
                                               tokenizer.current)))))]_vars

\* The quotes that end the scan of the literal opened at q: the same quote
\* character, not directly preceded by a backslash.
FoundQuotes(s, q) ==
    {i \in (q + 1)..(Len(s) - 1) : At(s, i) = At(s, q) /\ At(s, i - 1) # "\\"}

\* Position i > 0 of s holds a line break, or the first character of one,
\* that no backslash escapes.
UnescapedNewlineAt(s, i) ==
    \/ At(s, i) = "\r" /\ At(s, i - 1) # "\\"
    \/ At(s, i) = "\n" /\ At(s, i - 1) \notin {"\\", "\r"}

\* C19: no literal spans an unescaped line break.  A call made at the start
\* of a literal raises the Unclosed error of its kind when an unescaped line
\* break lies between the opening quote and the terminating quote the scan
\* finds, and a token it returns contains no unescaped line break.
C19_NoUnescapedNewline ==
    [][(Scanning /\ LiteralStarts(tokenizer.source, tokenizer.current))
          => /\ (/\ FoundQuotes(tokenizer.source,
                                QuoteStart(tokenizer.source,
                                           tokenizer.current)) # {}
                 /\ \E i \in QuoteStart(tokenizer.source, tokenizer.current)
                             ..MinOf(FoundQuotes(
                                   tokenizer.source,
                                   QuoteStart(tokenizer.source,
                                              tokenizer.current))) :
                        UnescapedNewlineAt(tokenizer.source, i))
                    => RaisedSyntaxError(
                           UnclosedMsg(At(tokenizer.source,
                                          QuoteStart(tokenizer.source,
                                                     tokenizer.current))))
             /\ Last(tok_hist').res = "tok"
                    => \A i \in 1..(Len(Last(tok_emitted').value) - 1) :
                           ~UnescapedNewlineAt(Last(tok_emitted').value, i)]_vars

\* The string literal that holds one bare newline has raised the error.
C19_Witness ==
    /\ tokenizer.source = <<"\"", "\n", "\"">>
    /\ tok_emitted = <<>>
    /\ tok_hist # <<>>
    /\ Last(tok_hist).res = "exc"
    /\ Last(tok_hist).exc.msg = "Unclosed string literal."

\* The positions, at least two characters after off, at which */ begins.
CommentEnds(s, off) ==
    {i \in (off + 2)..(Len(s) - 2) : At(s, i) = "*" /\ At(s, i + 1) = "/"}

\* C20: block comments.  A call made at /* returns one COMMENT token that
\* ends with the first */ beginning at least two characters after the start
\* of the /*; when the source has no such */ it raises "Unclosed block
\* comment." and returns no token.
C20_BlockComment ==
    [][(/\ Scanning
        /\ StartsWith(tokenizer.source, <<"/", "*">>, tokenizer.current))
          => IF CommentEnds(tokenizer.source, tokenizer.current) # {}
             THEN /\ Returned(Slice(tokenizer.source, tokenizer.current,
                                    2 + MinOf(CommentEnds(tokenizer.source,
                                                          tokenizer.current))))
                  /\ Last(tok_emitted').kind = "COMMENT"
             ELSE RaisedSyntaxError("Unclosed block comment.")]_vars

\* The source /*/ has raised the error at its first call.
C20_Witness ==
    /\ tokenizer.source = <<"/", "*", "/">>
    /\ tok_emitted = <<>>
    /\ Len(tok_hist) = 1
    /\ tok_hist[1].res = "exc"
    /\ tok_hist[1].exc.msg = "Unclosed block comment."

(***************************************************************************)
(* Specification of a Preprocessor over directive lines.  The top-level    *)
(* file m.c holds at most MaxDirLines lines drawn from DirLines, the last  *)
(* of which may lack its newline; no other file exists.  The consumer      *)
(* calls next() up to MaxCalls times.                                      *)
(***************************************************************************)
str_define == <<"d", "e", "f", "i", "n", "e">>

str_else == <<"e", "l", "s", "e">>

DirLines ==
    { <<"x", "\n">>,
      <<"\n">>,
      <<"#">> \o str_error \o <<"\n">>,
      <<"#">> \o str_error \o <<" ", "m", "\n">>,
      <<"#">> \o str_error,
      <<"#">> \o str_define \o <<" ", "X", "\n">>,
      <<"#", " ">> \o str_else \o <<"\n">>,
      <<"#", "1", "\n">>,
      line_pragma_once,
      <<"#">> \o str_pragma \o <<" ">> \o str_once \o <<" ", "\n">>,
      <<"#">> \o str_pragma \o <<" ">> \o str_once \o <<" ", "x", " ", "y", "\n">>,
      <<"#">> \o str_warning \o <<" ", "\"", "w", "\"", "\n">>,
      <<"#">> \o str_warning \o <<"\n">>,
      <<"#">> \o str_include \o <<" ", "x", "\n">>,
      <<"#">> \o str_include \o <<" ", "1", "\n">>,
      <<"#">> \o str_include \o <<"\n">>,
      <<"#">> \o str_include \o <<" ">> }

DirInit ==
    /\ \E source \in Sources(DirLines, MaxDirLines) :
           pp = NewPreprocessor(NewTokenizer(source, path_m_c), <<>>, <<>>, FALSE,
                                { <<path_m_c, source>> })
    /\ pp_emitted = <<>>
    /\ pp_hist = <<>>
    /\ tokenizer = TokIdle
    /\ tok_emitted = <<>>
    /\ tok_hist = <<>>
    /\ enum_cls = EnumIdle

SpecDir == DirInit /\ [][Next]_vars

\* The name of the first directive of the source: the position in Upstream of
\* the first token after its # that is neither whitespace nor comment, or 0.
FirstDirectiveName ==
    IF FirstDirective = 0 THEN 0 ELSE NthNotSpaceAfter(Upstream, FirstDirective, 1)

\* The first directive of the source is #name.
FirstDirectiveIs(name) ==
    /\ FirstDirectiveName # 0
    /\ Upstream[FirstDirectiveName].value = name

\* The number of the first line of the top-level source that starts with #,
\* or 0.
FirstHashLine ==
    LET hashes == {k \in 1..Len(TopLines) : Head(TopLines[k]) = "#"}
    IN  IF hashes = {} THEN 0 ELSE MinOf(hashes)

\* The text of the line starts with # directly followed by the word name.
IsDirectiveLine(line, name) ==
    /\ StartsWith(line, <<"#">> \o name, 0)
    /\ Len(line) > Len(name) + 1 => ~can_end_identifier(line[Len(name) + 2])

\* The first line of the source that starts with # is #error.
FirstLineIsError ==
    /\ FirstHashLine # 0
    /\ IsDirectiveLine(TopLines[FirstHashLine], str_error)

\* C21: #error.  When the first directive line of the source is #error, the
\* first call that returns no token raises "Preprocessing error.", located at
\* the token that follows error when the input has one, whether message
\* tokens, a newline or the end of the input follows error, and no token from
\* the directive line on has been emitted.
C21_ErrorDirective ==
    (FirstLineIsError /\ FirstEnd(pp_hist))
        => /\ Last(pp_hist).res = "exc"
           /\ Last(pp_hist).exc.type = "PycpSyntaxError"
           /\ Last(pp_hist).exc.msg = "Preprocessing error."
           /\ FirstDirectiveName # 0 /\ FirstDirectiveName < Len(Upstream)
                  => IsSyntaxErrorAt(Last(pp_hist).exc, "Preprocessing error.",
                                     Upstream[FirstDirectiveName + 1])
           /\ pp_emitted = NotSpace(SubSeq(Upstream, 1, FirstDirective - 1))

\* The position in toks of the name of the directive whose # is at j: the
\* first token after j that is neither whitespace nor comment, or 0.
DirectiveName(toks, j) == NthNotSpaceAfter(toks, j, 1)

\* The # of a directive line: a # that is the first token of its line.
DirectiveHashes(toks) ==
    {j \in 1..Len(toks) : toks[j].kind = "PP_OCTO" /\ AtLineStart(toks, j)}

KnownDirectives == {str_include, str_include_next, str_pragma, str_error, str_warning}

\* The directive at j has a name that the dispatch has no branch for.
UnknownDirectiveAt(toks, j) ==
    /\ DirectiveName(toks, j) # 0
    /\ toks[DirectiveName(toks, j)].kind # "NL"
    /\ toks[DirectiveName(toks, j)].value \notin KnownDirectives

\* The directive at j is a null directive, a #pragma or a #warning, none of
\* which ends preprocessing.
HarmlessDirectiveAt(toks, j) ==
    /\ DirectiveName(toks, j) # 0
    /\ \/ toks[DirectiveName(toks, j)].kind = "NL"
       \/ toks[DirectiveName(toks, j)].value \in {str_pragma, str_warning}

\* C22: unknown directives.  For the first directive of the source whose name
\* is not include, include_next, pragma, error, warning or a newline, every
\* directive before it being harmless, the first call that returns no token
\* raises "Invalid preprocessor directive." located at that name token.
C22_UnknownDirective ==
    FirstEnd(pp_hist)
        => \A j \in DirectiveHashes(Upstream) :
               (/\ UnknownDirectiveAt(Upstream, j)
                /\ \A i \in DirectiveHashes(Upstream) :
                       i < j => HarmlessDirectiveAt(Upstream, i))
                   => /\ Last(pp_hist).res = "exc"
                      /\ IsSyntaxErrorAt(Last(pp_hist).exc,
                                         "Invalid preprocessor directive.",
                                         Upstream[DirectiveName(Upstream, j)])

\* The positions in self.raw_tokens of the included files being read: the
\* generators of _tokens_with_temp_local_dir that have started and not ended.
Entered(p) ==
    {k \in 1..Len(p.raw_tokens) :
         p.raw_tokens[k].type = "generator" /\ p.raw_tokens[k].started}

\* An included file is being read.
Reading(p) == Entered(p) # {}

\* The local_dir in force before the outermost included file was entered.
LocalDirBefore(p) ==
    p.raw_tokens[CHOOSE k \in Entered(p) : \A j \in Entered(p) : j <= k].orig_local_dir

IncludeNextDirs(p) ==
    SubSeq(p.include_search_dirs, p.include_next_index + 1, Len(p.include_search_dirs))

\* The file being read, the one opened last, was found in include_search_dirs[m].
FoundInSearchDir(p, m) ==
    /\ Reading(p)
    /\ m \in 1..Len(p.include_search_dirs)
    /\ Last(p.opened) = normpath(join(p.include_search_dirs[m], path_h))

SkipsRestOfLine(toks, j) ==
    LET name == DirectiveName(toks, j)
        arg == IF name = 0 THEN 0 ELSE NthNotSpaceAfter(toks, name, 1)
    IN  /\ name # 0
        /\ \/ toks[name].value = str_warning
           \/ toks[name].value = str_pragma /\ arg # 0 /\ toks[arg].value = str_once

\* The position in toks of the last token that the directive at j consumes as
\* its own: once for #pragma once, the message of #warning when there is one,
\* else the name.
LastOwnToken(toks, j) ==
    LET name == DirectiveName(toks, j)
        arg == NthNotSpaceAfter(toks, name, 1)
    IN  IF toks[name].value = str_pragma THEN arg
        ELSE IF arg # 0 /\ toks[arg].kind = "STRING_LITERAL" THEN arg
        ELSE name

\* A token that is neither whitespace nor comment stands between the own
\* tokens of the directive at j and the newline of its line.
ExtraTokensAt(toks, j) ==
    LET after == NthNotSpaceAfter(toks, LastOwnToken(toks, j), 1)
    IN  after # 0 /\ toks[after].kind # "NL"

\* The "Extra tokens." warning was emitted for the given line.
ExtraWarned(p, lineno) ==
    \E i \in 1..Len(p.warnings) :
        /\ p.warnings[i].msg = str_extra_tokens
        /\ p.warnings[i].category = "PycpSyntaxWarning"
        /\ p.warnings[i].lineno = lineno

\* C25: extra-tokens warning.  Once the first directive of the source, a
\* #pragma once or a #warning, has been handled, the "Extra tokens." warning
\* has been emitted for its line if and only if a token that is neither
\* whitespace nor comment stands between the directive's own tokens and the
\* newline, and no token of that line is ever emitted.
C25_ExtraTokens ==
    (/\ FirstDirective # 0
     /\ SkipsRestOfLine(Upstream, FirstDirective)
     /\ BottomPart(pp).tz.current > Offset(Upstream, FirstDirective))
        => /\ ExtraWarned(pp, Upstream[FirstDirective].lineno)
                  <=> ExtraTokensAt(Upstream, FirstDirective)
           /\ \A i \in 1..Len(pp_emitted) :
                  pp_emitted[i].lineno # Upstream[FirstDirective].lineno

\* The lines of DirLines that only warn: #warning with and without a message,
\* and #pragma once followed by extra tokens.
WarningLines ==
    { <<"#">> \o str_warning \o <<" ", "\"", "w", "\"", "\n">>,
      <<"#">> \o str_warning \o <<"\n">>,
      <<"#">> \o str_pragma \o <<" ">> \o str_once \o <<" ", "x", " ", "y", "\n">> }

\* C26: warnings never interrupt the stream.  A run over a source with a
\* #warning line or a directive line with extra tokens raises and emits
\* exactly what the run over the source without that line does.
C26_WarningsContinue ==
    (Drained \/ (FirstEnd(pp_hist) /\ RaisedAny(pp_hist)))
        => \A i \in 1..Len(TopLines) :
               TopLines[i] \in WarningLines
                   => LET ref == ReferenceRun(Concat(Without(TopLines, i)))
                      IN  /\ ref.raised = RaisedAny(pp_hist)
                          /\ ref.values = Values(pp_emitted)

\* The newline sequence that starts at off: \r\n, or the single \n or \r.
NewlineAt(s, off) ==
    IF StartsWith(s, <<"\r", "\n">>, off) THEN <<"\r", "\n">> ELSE <<At(s, off)>>

\* A call of next() is made by a consumer whose calls so far all returned
\* tokens, with the cursor at one of the given characters.
ScanningAt(chars) ==
    /\ Scanning
    /\ Iterating(tok_hist)
    /\ At(tokenizer.source, tokenizer.current) \in chars

\* C27: newline forms.  A call with the cursor at \n or \r, anywhere in the
\* source, returns one NL token whose text is the whole newline sequence
\* (\r\n, \n or a bare \r) and raises nothing.
C27_NewlineForms ==
    [][ScanningAt({"\n", "\r"})
          => /\ Returned(NewlineAt(tokenizer.source, tokenizer.current))
             /\ Last(tok_emitted').kind = "NL"]_vars

\* C28: escaped newline.  A call with the cursor at a backslash directly
\* followed by a newline returns one token that is not an NL token and whose
\* text is the backslash and the newline sequence.
C28_EscapedNewline ==
    [][(/\ ScanningAt({"\\"})
        /\ StartsWithAny(tokenizer.source, {<<"\n">>, <<"\r">>}, tokenizer.current + 1))
          => /\ Returned(<<"\\">> \o NewlineAt(tokenizer.source, tokenizer.current + 1))
             /\ Last(tok_emitted').kind # "NL"]_vars

\* The number of NL tokens among the first n tokens of toks.
NewlinesIn(toks, n) == Cardinality({i \in 1..n : toks[i].kind = "NL"})

ChrAlphabet == {"a", "1", " ", "\n", "+", "@", "GRAVE", "\\", "\f"}

ChrInit ==
    /\ \E source \in Strings(ChrAlphabet, MaxChrLen) :
           tokenizer = NewTokenizer(source, UnknownFilename)
    /\ tok_emitted = <<>>
    /\ tok_hist = <<>>
    /\ pp = PPIdle
    /\ pp_emitted = <<>>
    /\ pp_hist = <<>>
    /\ enum_cls = EnumIdle

SpecChr == ChrInit /\ [][TokNext]_vars

\* The characters of the broad punctuation set that start neither a
\* punctuator nor a literal nor an identifier: @, the backtick and the
\* backslash.
InvalidPunctuators ==
    {c \in punctuation1 :
         /\ c \notin {"\"", "'"}
         /\ ~can_start_identifier(c)
         /\ \A p \in Punctuators : Head(p) # c}

\* The character is matched by no branch of the tokenizer's dispatch.
StartsNoRule(c) ==
    /\ c \notin {"\r", "\n"} \cup non_nl_whitespace \cup digits \cup punctuation1
    /\ ~can_start_identifier(c)

\* C30: unlexable characters.  A call with the cursor at @, at a backtick or
\* at a backslash that is not followed by a newline raises "Invalid
\* punctuation."; a call with the cursor at a character that no lexical rule
\* matches raises "Invalid token."; neither returns a token.
C30_UnlexableCharacters ==
    [][/\ (/\ ScanningAt(InvalidPunctuators)
           /\ ~StartsWithAny(tokenizer.source, {<<"\\", "\n">>, <<"\\", "\r">>},
                             tokenizer.current))
             => RaisedSyntaxError("Invalid punctuation.")
       /\ (/\ Scanning
           /\ Iterating(tok_hist)
           /\ StartsNoRule(At(tokenizer.source, tokenizer.current)))
             => RaisedSyntaxError("Invalid token.")]_vars

\* The source a@ has returned a and then raised at the @.
C30_Witness ==
    /\ tokenizer.source = <<"a", "@">>
    /\ Len(tok_emitted) = 1
    /\ Len(tok_hist) = 2
    /\ tok_hist[2].res = "exc"
    /\ tok_hist[2].exc.msg = "Invalid punctuation."

\* C31: errors abort the instance.  Once a call of next() on the Tokenizer
\* has raised a lexical error, no later call on it returns a token.
C31_ErrorsAbort ==
    \A i \in 1..Len(tok_hist) :
        (tok_hist[i].res = "exc" /\ tok_hist[i].exc.type = "PycpSyntaxError")
            => \A j \in (i + 1)..Len(tok_hist) : tok_hist[j].res # "tok"

\* C32: Preprocessor finiteness.  Once a call of next() on the Preprocessor
\* has signalled the end of the input, every later call signals it again.
C32_EndOfInputStays ==
    \A i \in 1..Len(pp_hist) :
        pp_hist[i].res = "stop"
            => \A j \in (i + 1)..Len(pp_hist) : pp_hist[j].res = "stop"

line_null_directive == <<"#", "\n">>

\* The top-level source holds only null directives and lines without
\* directives.
OnlyNullDirectives ==
    \A k \in 1..Len(TopLines) : TopLines[k] \in PlainLines \cup {line_null_directive}

\* C33: null directive.  Over a source whose only directives are null
\* directives no call raises an error, no token of a null directive line is
\* emitted, and the once-set, local_dir and include_search_dirs stay as they
\* were configured.
C33_NullDirective ==
    OnlyNullDirectives
        => /\ ~RaisedAny(pp_hist)
           /\ \A i \in 1..Len(pp_emitted) : pp_emitted[i].kind # "PP_OCTO"
           /\ pp.pragma_once_paths = {}
           /\ pp.local_dir = <<>>
           /\ pp.include_search_dirs = <<>>

\* The position in Upstream of the first token after the name of the first
\* directive that is neither whitespace nor comment, or 0 when the input ends
\* before one.
FirstDirectiveArgument ==
    IF FirstDirectiveName = 0 THEN 0
    ELSE NthNotSpaceAfter(Upstream, FirstDirectiveName, 1)

\* C34: include target syntax.  When the first directive of the source is an
\* #include whose name is followed by a token other than a string literal or
\* <, or by no token at all, the first call that returns no token raises
\* "Expected filename after #include.", located at that token when there is
\* one, and no file has been opened.
C34_IncludeTarget ==
    (/\ FirstDirectiveIs(str_include)
     /\ FirstDirectiveArgument # 0
            => Upstream[FirstDirectiveArgument].kind \notin {"STRING_LITERAL", "LT"}
     /\ FirstEnd(pp_hist))
        => /\ Last(pp_hist).res = "exc"
           /\ Last(pp_hist).exc.type = "PycpSyntaxError"
           /\ Last(pp_hist).exc.msg = "Expected filename after #include."
           /\ FirstDirectiveArgument # 0
                  => IsSyntaxErrorAt(Last(pp_hist).exc,
                                     "Expected filename after #include.",
                                     Upstream[FirstDirectiveArgument])
           /\ pp.opened = <<>>

(***************************************************************************)
(* The enum classes of _enum.py.  A value of a class body is the AUTO      *)
(* sentinel, an int or a str; the members of a body are named by their     *)
(* position in it.                                                         *)
(***************************************************************************)
AUTO == [t |-> "auto", i |-> 0, s |-> <<>>]

IntValue(n) == [t |-> "int", i |-> n, s |-> <<>>]

StrValue(text) == [t |-> "str", i |-> 0, s |-> text]

EnumMember(name, value) == [name |-> name, value |-> value]

\* The KeyError of value_map[mem_value]: no member was stored under the value.
KeyError(value_map, mem_value) ==
    \A k \in 1..Len(value_map) : value_map[k].value # mem_value

\* value_map[mem_value]
Lookup(value_map, mem_value) ==
    value_map[CHOOSE k \in 1..Len(value_map) : value_map[k].value = mem_value]

\* The loop body of EnumMeta.__new__ in which only auto() members move the
\* counter: an int value of the body leaves last_auto alone.
new_member_AutoOnly(ns, mem_name, mem_value) ==
    LET value == IF mem_value = AUTO THEN IntValue(ns.last_auto + 1) ELSE mem_value
        last_auto == IF mem_value = AUTO THEN ns.last_auto + 1 ELSE ns.last_auto
        fresh == KeyError(ns.value_map, value)
        member == IF fresh THEN EnumMember(mem_name, value)
                  ELSE Lookup(ns.value_map, value)
    IN  [last_auto |-> last_auto,
         member_map |-> Append(ns.member_map, member),
         value_map |-> IF fresh THEN Append(ns.value_map, member) ELSE ns.value_map,
         member_names |-> IF fresh THEN Append(ns.member_names, mem_name)
                          ELSE ns.member_names]

\* The loop body of EnumMeta.__new__ for one member, without a custom
\* _generate_next_value_.
new_member(ns, mem_name, mem_value) ==
    LET value == IF mem_value = AUTO THEN IntValue(ns.last_auto + 1) ELSE mem_value
        last_auto == IF mem_value = AUTO THEN ns.last_auto + 1
                     ELSE IF mem_value.t = "int" THEN mem_value.i
                     ELSE ns.last_auto
        fresh == KeyError(ns.value_map, value)
        member == IF fresh THEN EnumMember(mem_name, value)
                  ELSE Lookup(ns.value_map, value)
    IN  [last_auto |-> last_auto,
         member_map |-> Append(ns.member_map, member),
         value_map |-> IF fresh THEN Append(ns.value_map, member) ELSE ns.value_map,
         member_names |-> IF fresh THEN Append(ns.member_names, mem_name)
                          ELSE ns.member_names]

\* The loop of EnumMeta.__new__ over the first n members of the body.
RECURSIVE members(_, _)
members(body, n) ==
    IF n = 0
    THEN [last_auto |-> 0, member_map |-> <<>>, value_map |-> <<>>,
          member_names |-> <<>>]
    ELSE new_member(members(body, n - 1), n, body[n])

Digits == <<"0", "1", "2", "3", "4", "5", "6", "7", "8", "9">>

\* repr() of an int.
RECURSIVE repr_int(_)
repr_int(n) ==
    IF n < 0 THEN <<"-">> \o repr_int(-n)
    ELSE IF n < 10 THEN <<Digits[n + 1]>>
    ELSE repr_int(n \div 10) \o <<Digits[(n % 10) + 1]>>

\* repr() of a value; the strs drawn here hold no quote and no backslash.
repr(value) ==
    IF value.t = "int" THEN repr_int(value.i) ELSE <<"'">> \o value.s \o <<"'">>

str_is_not_a_valid ==
    <<" ", "i", "s", " ", "n", "o", "t", " ", "a", " ", "v", "a", "l", "i", "d", " ">>

\* The message of the ValueError of EnumMeta.__call__ in each module.
CallFailMessage(cls, value) ==
    LET str_no_enum_member ==
            <<"n", "o", " ", "e", "n", "u", "m", " ", "m", "e", "m", "b", "e", "r", " ",
              "w", "i", "t", "h", " ", "a", " ", "v", "a", "l", "u", "e", " ",
              "o", "f", " ">>
    IN  IF cls.module = "pycc" THEN str_no_enum_member \o repr(value)
        ELSE repr(value) \o str_is_not_a_valid \o cls.qualname

\* EnumMeta.__call__
EnumMeta_call(cls, value) ==
    IF KeyError(cls.value_map, value)
    THEN [arg |-> value, res |-> "ValueError", member |-> EnumMember(0, AUTO),
          msg |-> CallFailMessage(cls, value)]
    ELSE [arg |-> value, res |-> "member", member |-> Lookup(cls.value_map, value),
          msg |-> <<>>]

(***************************************************************************)
(* Specification of one enum class: its module is pycc._enum or            *)
(* pycp._enum, its body holds at most MaxMembers values of BodyValues; the *)
(* class statement creates it and at most MaxEnumCalls calls look up       *)
(* values of CallValues.                                                   *)
(***************************************************************************)
BodyValues == {AUTO, IntValue(1), IntValue(5), IntValue(-1), StrValue(<<"5">>)}

CallValues == {IntValue(1), IntValue(5), IntValue(42), StrValue(<<"5">>)}

EnumInit ==
    /\ \E module \in {"pycc", "pycp"}, body \in Strings(BodyValues, MaxMembers) :
           enum_cls = [module |-> module, qualname |-> <<"E", "n", "u", "m">>,
                       body |-> body,
                       created |-> FALSE, member_map |-> <<>>, value_map |-> <<>>,
                       member_names |-> <<>>, calls |-> <<>>]
    /\ tokenizer = TokIdle
    /\ tok_emitted = <<>>
    /\ tok_hist = <<>>
    /\ pp = PPIdle
    /\ pp_emitted = <<>>
    /\ pp_hist = <<>>

\* The class statement: EnumMeta.__new__ over the whole body.
EnumNew ==
    /\ ~enum_cls.created
    /\ LET Created(ns) ==
               enum_cls' = [enum_cls EXCEPT !.created = TRUE,
                                            !.member_map = ns.member_map,
                                            !.value_map = ns.value_map,
                                            !.member_names = ns.member_names]
       IN  Created(members(enum_cls.body, Len(enum_cls.body)))
    /\ UNCHANGED <<tok_vars, pp_vars>>

EnumCall(res) ==
    /\ enum_cls.created
    /\ Len(enum_cls.calls) < MaxEnumCalls
    /\ \E value \in CallValues :
           LET Called(r) ==
                   /\ r.res = res
                   /\ enum_cls' = [enum_cls EXCEPT !.calls = Append(@, r)]
           IN  Called(EnumMeta_call(enum_cls, value))
    /\ UNCHANGED <<tok_vars, pp_vars>>

EnumCallReturn == EnumCall("member")

EnumCallRaise == EnumCall("ValueError")

EnumNext == EnumNew \/ EnumCallReturn \/ EnumCallRaise

SpecEnum == EnumInit /\ [][EnumNext]_vars

\* The value of the k-th member of the created class.
MemberValue(k) == enum_cls.member_map[k].value

\* The value of the last member before the k-th whose value is an int, or 0.
PrecedingInt(k) ==
    LET ints == {j \in 1..(k - 1) : MemberValue(j).t = "int"}
    IN  IF ints = {} THEN 0
        ELSE MemberValue(CHOOSE j \in ints : \A h \in ints : h <= j).i

\* C35: enum auto numbering.  In a created class every auto() member has the
\* value of the most recent preceding member with an int value plus 1, or 1
\* when there is none, and every other member has the value of its body.
C35_AutoNumbering ==
    enum_cls.created
        => \A k \in 1..Len(enum_cls.body) :
               MemberValue(k) = IF enum_cls.body[k] = AUTO
                                THEN IntValue(PrecedingInt(k) + 1)
                                ELSE enum_cls.body[k]

\* The class with v1 = auto(), v2 = '5', v3 = auto() has the values 1, '5', 2.
C35_Witness ==
    /\ enum_cls.created
    /\ enum_cls.body = <<AUTO, StrValue(<<"5">>), AUTO>>
    /\ MemberValue(1) = IntValue(1)
    /\ MemberValue(2) = StrValue(<<"5">>)
    /\ MemberValue(3) = IntValue(2)

\* Some member of the created class has the value.
HasMemberWithValue(value) ==
    \E k \in 1..Len(enum_cls.member_map) : MemberValue(k) = value

\* C36: enum lookup by value.  A call of an enum class of pycc._enum with a
\* value returns the member that has the value, and with a value that no
\* member has it raises ValueError with the message
\* "<repr of value> is not a valid <qualname of the enum>".
C36_LookupByValue ==
    (enum_cls.created /\ enum_cls.module = "pycc")
        => \A c \in 1..Len(enum_cls.calls) :
               LET call == enum_cls.calls[c]
               IN  IF HasMemberWithValue(call.arg)
                   THEN /\ call.res = "member"
                        /\ call.member.value = call.arg
                   ELSE /\ call.res = "ValueError"
                        /\ call.msg = repr(call.arg) \o str_is_not_a_valid
                                          \o enum_cls.qualname

\* C37: tokenizer progress.  Every call of next() that returns a token
\* strictly increases current and returns a token with a non-empty text, and
\* a tokenizer never returns more tokens than its source has characters.
C37_Progress ==
    /\ [][(tok_hist' # tok_hist /\ Last(tok_hist').res = "tok")
              => /\ tokenizer'.current > tokenizer.current
                 /\ Len(Last(tok_emitted').value) > 0]_vars
    /\ [](Len(tok_emitted) <= Len(tokenizer.source))

\* Every character of a source of MaxSrcLen characters was returned as a
\* token of its own.
C37_Witness ==
    /\ Len(tokenizer.source) = MaxSrcLen
    /\ Len(tok_emitted) = MaxSrcLen
    /\ tokenizer.current = tokenizer.end

\* The number of source characters before the first character of the k-th
\* returned token: the returned tokens are adjacent pieces of the source.
TokenStart(k) == Offset(tok_emitted, k)

\* The number of source characters up to the end of the last newline token
\* returned before the k-th token, 0 when there is none.
LineStartBefore(k) ==
    LET nls == {j \in 1..(k - 1) : tok_emitted[j].kind = "NL"}
        Ending(j) == TokenStart(j) + Len(tok_emitted[j].value)
    IN  IF nls = {} THEN 0 ELSE Ending(CHOOSE j \in nls : \A h \in nls : h <= j)

NumAlphabet == {"1", "e", "P", "+", "-", ".", "\\"}

source_1e5 == <<"1", "e", "+", "5">>

source_0x1p3 == <<"0", "x", "1", "p", "-", "3">>

source_1plus2 == <<"1", "+", "2">>

NumInit ==
    /\ \E source \in Strings(NumAlphabet, MaxNumLen)
                         \cup {source_1e5, source_0x1p3, source_1plus2} :
           tokenizer = NewTokenizer(source, UnknownFilename)
    /\ tok_emitted = <<>>
    /\ tok_hist = <<>>
    /\ pp = PPIdle
    /\ pp_emitted = <<>>
    /\ pp_hist = <<>>
    /\ enum_cls = EnumIdle

SpecNum == NumInit /\ [][TokNext]_vars

\* The cursor is at a decimal digit, or at a "." followed by a decimal digit.
NumericStart(s, cur) ==
    /\ cur < Len(s)
    /\ \/ isdecimal(At(s, cur))
       \/ At(s, cur) = "." /\ cur + 1 < Len(s) /\ isdecimal(At(s, cur + 1))

\* The character at i continues a run: an ASCII alphanumeric, a ".", or a
\* sign directly after one of e, E, p, P.
InRun(s, i) ==
    \/ At(s, i) \in alphanumeric \cup {"."}
    \/ At(s, i) \in {"+", "-"} /\ At(s, i - 1) \in {"e", "E", "p", "P"}

\* The end of the maximal run that starts at cur.
RunEnd(s, cur) ==
    MinOf({e \in (cur + 1)..Len(s) : e = Len(s) \/ ~InRun(s, e)})

\* C39: numeric literal scan.  A call at a decimal digit, or at a "."
\* followed by a decimal digit, returns a PP_NUM token that ends at the end
\* of the maximal run of ASCII alphanumerics and ".", a sign belonging to
\* the run exactly when it directly follows one of e, E, p, P; the text of
\* the token is the run when no failed scan precedes it.  1e+5 and 0x1p-3 are
\* one PP_NUM token each and 1+2 is the three tokens 1, + and 2.
C39_NumericLiteral ==
    /\ [][(tok_hist' # tok_hist
              /\ NumericStart(tokenizer.source, tokenizer.current))
              => /\ Last(tok_hist').res = "tok"
                 /\ Last(tok_emitted').kind = "PP_NUM"
                 /\ tokenizer'.current
                        = RunEnd(tokenizer.source, tokenizer.current)
                 /\ tokenizer.previous = tokenizer.current
                        => Last(tok_emitted').value
                               = Slice(tokenizer.source, tokenizer.current,
                                       RunEnd(tokenizer.source, tokenizer.current))]_vars
    /\ []((Len(tok_hist) > 0 /\ tokenizer.source \in {source_1e5, source_0x1p3})
              => /\ Len(tok_emitted) = 1
                 /\ tok_emitted[1].kind = "PP_NUM"
                 /\ tok_emitted[1].value = tokenizer.source)
    /\ []((Len(tok_hist) > 3 /\ tokenizer.source = source_1plus2)
              => /\ Values(tok_emitted) = << <<"1">>, <<"+">>, <<"2">> >>
                 /\ Kinds(tok_emitted) = <<"PP_NUM", "PLUS", "PP_NUM">>)

\* 1e+5 was returned as one token and the tokenizer is at the end.
C39_Witness ==
    /\ tokenizer.source = source_1e5
    /\ Len(tok_emitted) = 1
    /\ tok_emitted[1].value = source_1e5
    /\ tokenizer.current = tokenizer.end

\* The tokens a part of self.raw_tokens still holds.
RemainingOf(part) == IF part.type = "list" THEN part.toks ELSE TokensFrom(part.tz)

\* The tokens self.raw_tokens still holds, in the order of the chain.
Remaining(p) ==
    Concat([k \in 1..Len(p.raw_tokens) |-> RemainingOf(p.raw_tokens[k])])

\* The remaining tokens of the files other than the one a token is of.
Foreign(p, tok) == SelectSeq(Remaining(p), LAMBDA t : t.filename # tok.filename)

IsSuffix(a, b) == Len(a) <= Len(b) /\ SubSeq(b, Len(b) - Len(a) + 1, Len(b)) = a

\* The directives the for loop of one call of __next__ handles: for each the
\* instance before and after its handling, as ForLoop meets them.
RECURSIVE HandledDirectives(_)
HandledDirectives(p) ==
    LET Handled(q, d) ==
            <<[before |-> q, after |-> d]>>
                \o (IF Raising(d) THEN <<>>
                    ELSE HandledDirectives(AfterDirective(d)))
        Body(r) ==
            LET q == [r.pp EXCEPT !.curr_tok = r.tok]
            IN  IF Raising(r.pp) \/ r.tok = NoTok THEN <<>>
                ELSE IF _is_macro(q.curr_tok) THEN <<>>
                ELSE IF _is_pp_directive_hash(q.curr_tok, q.prev_tok)
                THEN Handled(q, Directive(q))
                ELSE IF q.curr_tok.kind \in {"NL", "WS", "COMMENT"}
                THEN HandledDirectives([q EXCEPT !.prev_tok = q.curr_tok])
                ELSE <<>>
    IN  Body(Pull(p, p.for_skip + 1))

\* The directives the next call of __next__ handles.
NextDirectives ==
    HandledDirectives([pp EXCEPT !.for_skip = 0, !.exc = NoExc, !.ret = NoTok])

\* C40: file boundary of directive handling.  Handling a directive consumes
\* no token of a file other than the one that contains its "#": the tokens
\* of the other files that were still to come before the handling are still
\* to come after it, behind those of a file the directive included.
C40_FileBoundary ==
    \A k \in 1..Len(NextDirectives) :
        LET step == NextDirectives[k]
        IN  IsSuffix(Foreign(step.before, step.before.curr_tok),
                     Foreign(step.after, step.before.curr_tok))

====
